---- MODULE Spec2Model ----
(***************************************************************************)
(* A model of zync: the directory enumerator (enumerateFiles over          *)
(* filepath.Walk), the client's merge-walk (runClient, resolve and the     *)
(* primitive client operations), the server session (handleConnection and  *)
(* its handlers) and the file transfer (sendFile / recvFile).              *)
(*                                                                         *)
(* Paths are Go strings: sequences of byte values.  '/' is 47, '.' is 46,  *)
(* '-' is 45 and 'a' is 97.  A file system is a function from the          *)
(* root-relative paths that exist (the root itself is ".") to their        *)
(* entries.                                                                *)
(***************************************************************************)
EXTENDS Integers, Sequences, FiniteSets, TLC

VARIABLES
    cfs,              \* the client's tree (working directory of the client)
    sfs,              \* the server's tree
    cfs0,             \* the client's tree before the run
    sfs0,             \* the server's tree before the run
    keepWhose,        \* option --keep: "", "mine" or "theirs"
    autoDelete,       \* option --delete
    interactive,      \* option --interactive
    restrict,         \* server option --restrict
    restrictAll,      \* server option --Restrict
    cpc,              \* the client's position in runClient
    ctodo,            \* the heads runClient still has to advance before it loops
    myNext,           \* runClient: myNext
    myAny,            \* runClient: myAny
    svrNext,          \* runClient: svrNext
    svrAny,           \* runClient: svrAny
    cw,               \* the client's enumerator goroutine and its channel
    cpend,            \* the FileInfo and overwrite flag of the client's exchange in progress
    spc,              \* the server's position in handleConnection
    sw,               \* the server's enumerator goroutine and its channel
    lastSentFilePath, \* server.go: var lastSentFilePath
    spend,            \* the offer the server is receiving a file for
    c2s,              \* messages in flight, client to server
    s2c,              \* messages in flight, server to client
    cclosed,          \* the client has closed its end of the connection
    handled,          \* the paths the sync loop has handled, with category and action
    wire,             \* the types of all messages sent so far, either direction
    out,              \* the FileInfos a consumer has received from the enumerator
    L0,               \* merge-walk over given sequences: the local sequence
    R0,               \* merge-walk over given sequences: the remote sequence
    L,                \* what is left of the local sequence
    R,                \* what is left of the remote sequence
    sess,             \* the connection the server is serving: which, and who is at its ends
    codec             \* one message on a connection: the bytes and what was read

vars == << cfs, sfs, cfs0, sfs0, keepWhose, autoDelete, interactive, restrict, restrictAll,
           cpc, ctodo, myNext, myAny, svrNext, svrAny, cw, cpend,
           spc, sw, lastSentFilePath, spend, c2s, s2c, cclosed,
           handled, wire, out, L0, R0, L, R, sess, codec >>

-----------------------------------------------------------------------------
(* Bounds *)

\* Largest number of entries below the root of a tree that is only enumerated.
MaxEntries == 3
\* Longest sequence handed to the merge-walk when it runs over given sequences.
MaxSeqLen == 3
\* Modification times of the server's files range over 1..MaxMTime.
MaxMTime == 3
\* Sizes of the server's files range over 1..MaxSize.
MaxSize == 2

-----------------------------------------------------------------------------
(* Paths *)

Dot == << 46 >>
Sep == << 47 >>
NameA == << 97 >>
NameADash == << 97, 45 >>
NameDash == << 45 >>
NameB == << 98 >>

\* Go's < on strings: byte-wise lexicographic, a proper prefix is smaller.
RECURSIVE PathLess(_, _)
PathLess(p, q) ==
    IF q = << >> THEN FALSE
    ELSE IF p = << >> THEN TRUE
    ELSE IF p[1] # q[1] THEN p[1] < q[1]
    ELSE PathLess(Tail(p), Tail(q))

\* filepath.Join(dir, name) followed by filepath.Rel(root, .): the root is ".".
Join(dir, name) == IF dir = Dot THEN name ELSE dir \o Sep \o name

\* p lies beneath the directory d.
IsUnder(p, d) ==
    /\ p # d
    /\ \/ d = Dot
       \/ /\ Len(p) > Len(d) + 1
          /\ SubSeq(p, 1, Len(d)) = d
          /\ p[Len(d) + 1] = Sep[1]

HasSep(p) == \E i \in 1..Len(p) : p[i] = Sep[1]

LastSep(p) == CHOOSE i \in 1..Len(p) :
    p[i] = Sep[1] /\ \A j \in (i + 1)..Len(p) : p[j] # Sep[1]

\* The directory that holds p.
Parent(p) == IF HasSep(p) THEN SubSeq(p, 1, LastSep(p) - 1) ELSE Dot

-----------------------------------------------------------------------------
(* File systems *)

\* A directory (mode 0700) and a regular file (mode 0644) with its size,
\* modification time and content.
DirEntry == [isDir |-> TRUE, mode |-> 448, mtime |-> 0, size |-> 0, data |-> "dir"]
FileEntry(size, mtime, data) ==
    [isDir |-> FALSE, mode |-> 420, mtime |-> mtime, size |-> size, data |-> data]

Exists(fs, p) == p \in DOMAIN fs
IsDirAt(fs, p) == Exists(fs, p) /\ fs[p].isDir

\* A well-formed tree: the root is a directory and every entry sits in a directory.
WellFormed(fs) ==
    \A p \in DOMAIN fs : p = Dot \/ IsDirAt(fs, Parent(p))

\* os.RemoveAll: removes the path and everything beneath it; no error when
\* the path does not exist.
RemoveAll(fs, p) == [q \in { q \in DOMAIN fs : q # p /\ ~IsUnder(q, p) } |-> fs[q]]

\* os.Mkdir succeeds iff the path does not exist and its parent is a directory.
MkdirOk(fs, p) == ~Exists(fs, p) /\ IsDirAt(fs, Parent(p))
Put(fs, p, e) == [q \in DOMAIN fs \cup {p} |-> IF q = p THEN e ELSE fs[q]]
Mkdir(fs, p, mode) == Put(fs, p, [DirEntry EXCEPT !.mode = mode])

\* os.Rename of a temp file onto the target succeeds iff the target's parent
\* is a directory and the target is not itself a directory.
RenameOk(fs, p) == IsDirAt(fs, Parent(p)) /\ ~IsDirAt(fs, p)

NoFile == [path |-> << >>, isDir |-> FALSE, mode |-> 0, modTime |-> 0, size |-> 0]

\* fileInfo(root, path, info)
fileInfo(fs, p) ==
    [path |-> p, isDir |-> fs[p].isDir, mode |-> fs[p].mode,
     modTime |-> fs[p].mtime, size |-> fs[p].size]

-----------------------------------------------------------------------------
(* The enumerator: enumerateFiles, a goroutine running filepath.Walk that   *)
(* hands every entry to its consumer over an unbuffered channel.            *)

\* The smallest path of a non-empty set under Go's string order.
MinPath(S) == CHOOSE p \in S : \A q \in S : q = p \/ PathLess(p, q)

\* sort.Strings
RECURSIVE SortPaths(_)
SortPaths(S) ==
    IF S = {} THEN << >>
    ELSE LET m == MinPath(S) IN << m >> \o SortPaths(S \ {m})

Children(fs, d) == { p \in DOMAIN fs : p # Dot /\ Parent(p) = d }

\* readDirNames: the directory's entries, sorted by name.  Sorting the
\* children's paths is sorting their names, the directory prefix being shared.
ReadDirNames(fs, d) == SortPaths(Children(fs, d))

\* The goroutine before it has started the walk.
WalkerIdle == [started |-> FALSE, frames |-> << >>, ready |-> NoFile, has |-> FALSE,
               closed |-> FALSE]
\* No enumeration at all (the process is not enumerating).
WalkerNone == [started |-> TRUE, frames |-> << >>, ready |-> NoFile, has |-> FALSE,
               closed |-> TRUE]

\* filepath.Walk from the point where the goroutine is free to run up to the
\* point where it blocks on the channel with the next entry, or returns.
\* frames is the stack of directories being walked, each with the names
\* still to visit.  An entry whose lstat fails is reported to the callback,
\* which logs a warning and goes on.
\* A faulty variant that never descends into a directory, and the walk itself.
RECURSIVE WalkAdvanceMutNoDescend(_, _)
WalkAdvanceMutNoDescend(fs, frames) ==
    IF frames = << >> THEN
        [started |-> TRUE, frames |-> << >>, ready |-> NoFile, has |-> FALSE, closed |-> TRUE]
    ELSE
        LET n    == Len(frames)
            top  == frames[n]
            rest == SubSeq(frames, 1, n - 1)
        IN  IF top = << >> THEN WalkAdvanceMutNoDescend(fs, rest)
            ELSE LET p    == Head(top)
                     popd == Append(rest, Tail(top))
                 IN  IF ~Exists(fs, p) THEN WalkAdvanceMutNoDescend(fs, popd)
                     ELSE [started |-> TRUE, frames |-> popd,
                           ready |-> fileInfo(fs, p), has |-> TRUE, closed |-> FALSE]

RECURSIVE WalkAdvance(_, _)
WalkAdvance(fs, frames) ==
    IF frames = << >> THEN
        [started |-> TRUE, frames |-> << >>, ready |-> NoFile, has |-> FALSE, closed |-> TRUE]
    ELSE
        LET n    == Len(frames)
            top  == frames[n]
            rest == SubSeq(frames, 1, n - 1)
        IN  IF top = << >> THEN WalkAdvance(fs, rest)
            ELSE LET p    == Head(top)
                     popd == Append(rest, Tail(top))
                 IN  IF ~Exists(fs, p) THEN WalkAdvance(fs, popd)
                     ELSE IF fs[p].isDir THEN
                          [started |-> TRUE,
                           frames |-> Append(popd, ReadDirNames(fs, p)),
                           ready |-> fileInfo(fs, p), has |-> TRUE, closed |-> FALSE]
                     ELSE [started |-> TRUE, frames |-> popd,
                           ready |-> fileInfo(fs, p), has |-> TRUE, closed |-> FALSE]

\* One run of the goroutine between two hand-offs: the first one starts the
\* walk at the root, the later ones continue it.
WalkStep(fs, w) ==
    IF ~w.started THEN WalkAdvance(fs, << << Dot >> >>)
    ELSE WalkAdvance(fs, w.frames)

\* The goroutine can run: it is neither blocked on the channel nor finished.
WalkerCanRun(w) == ~w.has /\ ~w.closed

\* The consumer's receive from the channel can return.
WalkerCanGive(w) == w.has \/ w.closed

\* The goroutine after the consumer has received from the channel.
WalkerTaken(w) == [w EXCEPT !.ready = NoFile, !.has = FALSE]

-----------------------------------------------------------------------------
(* The client's sync loop: which of its three branches an iteration takes.  *)

\* client.go, runClient: the conditions of the loop's if / else if / else.
\* A faulty variant with the two comparisons swapped, and the conditions.
ClassifyMutSwapped(mAny, sAny, mPath, sPath) ==
    IF sAny /\ (~mAny \/ PathLess(mPath, sPath)) THEN "MISSING"
    ELSE IF mAny /\ (~sAny \/ PathLess(sPath, mPath)) THEN "NEW"
    ELSE "SAME"
Classify(mAny, sAny, mPath, sPath) ==
    IF sAny /\ (~mAny \/ PathLess(sPath, mPath)) THEN "MISSING"
    ELSE IF mAny /\ (~sAny \/ PathLess(mPath, sPath)) THEN "NEW"
    ELSE "SAME"

\* The record the model keeps of one iteration: the path, the branch taken,
\* the two heads, the action chosen, the operation carried out (op), the
\* request it sent (sent) and the overwrite flag it passed on.
Handled(cat, act, mine, theirs) ==
    [path |-> IF cat = "MISSING" THEN theirs.path ELSE mine.path,
     cat |-> cat, act |-> act, mine |-> mine, theirs |-> theirs,
     op |-> "none", sent |-> "none", overwrite |-> FALSE,
     asked |-> FALSE, line |-> << >>]

-----------------------------------------------------------------------------
(* Values of the variables a specification does not use. *)

EmptyFs == [p \in {Dot} |-> DirEntry]

IdleClient ==
    /\ cpc = "idle" /\ ctodo = << >>
    /\ myNext = NoFile /\ myAny = FALSE /\ svrNext = NoFile /\ svrAny = FALSE
    /\ cpend = [fi |-> NoFile, overwrite |-> FALSE]
    /\ keepWhose = "" /\ autoDelete = FALSE /\ interactive = FALSE
    /\ handled = << >>

IdleServer ==
    /\ spc = "idle" /\ sw = WalkerNone /\ lastSentFilePath = << >>
    /\ spend = NoFile /\ restrict = FALSE /\ restrictAll = FALSE
    /\ sfs = EmptyFs /\ sfs0 = EmptyFs

IdleWire == c2s = << >> /\ s2c = << >> /\ cclosed = FALSE /\ wire = {}

IdleMerge == L0 = << >> /\ R0 = << >> /\ L = << >> /\ R = << >>

\* One connection, the zync client at one end and the zync server at the other.
OneSession == [n |-> 1, kind |-> "zync", left |-> 0, prev |-> "none"]

IdleCodec == [at |-> "idle"]

IdleEnv == sess = OneSession /\ codec = IdleCodec

clientVars == << cpc, ctodo, myNext, myAny, svrNext, svrAny, cpend, handled >>
optionVars == << keepWhose, autoDelete, interactive, restrict, restrictAll >>
serverVars == << spc, sw, lastSentFilePath, spend >>
wireVars == << c2s, s2c, cclosed, wire >>
mergeVars == << L0, R0, L, R >>
beforeVars == << cfs0, sfs0 >>
envVars == << sess, codec >>

-----------------------------------------------------------------------------
(* The enumerator on its own: one enumeration of a tree nobody changes.     *)

EnumNames == { NameA, NameADash, NameB }

\* All sets of at most n paths in which every path's parent is the root or
\* in the set.
RECURSIVE TreeShapes(_)
TreeShapes(n) ==
    IF n = 0 THEN { {} }
    ELSE LET prev == TreeShapes(n - 1)
         IN  prev \cup UNION { { T \cup { Join(d, nm) } : d \in T \cup { Dot }, nm \in EnumNames }
                               : T \in prev }

Leaves(T) == { p \in T : ~\E q \in T : IsUnder(q, p) }

\* The tree with the paths T, the leaves in D and all inner paths being directories.
MkTree(T, D) ==
    [p \in T \cup { Dot } |->
        IF p = Dot \/ p \in D \/ p \notin Leaves(T) THEN DirEntry ELSE FileEntry(1, 1, "c")]

EnumTrees == UNION { { MkTree(T, D) : D \in SUBSET Leaves(T) } : T \in TreeShapes(MaxEntries) }

EnumInit ==
    /\ cfs \in EnumTrees /\ cfs0 = cfs
    /\ cw = WalkerIdle
    /\ out = << >>
    /\ IdleClient /\ IdleServer /\ IdleWire /\ IdleMerge /\ IdleEnv

\* The enumerator goroutine of the client runs up to its next hand-off.
ClientWalk ==
    /\ WalkerCanRun(cw)
    /\ cw' = WalkStep(cfs, cw)
    /\ UNCHANGED << cfs, sfs, beforeVars, envVars, optionVars, clientVars, serverVars, wireVars,
                    out, mergeVars >>

\* fi, ok := <-out with ok true
EnumTake ==
    /\ cpc = "idle" /\ cw.has
    /\ out' = Append(out, cw.ready)
    /\ cw' = WalkerTaken(cw)
    /\ UNCHANGED << cfs, sfs, beforeVars, envVars, optionVars, clientVars, serverVars, wireVars,
                    mergeVars >>

\* fi, ok := <-out with ok false: the channel is closed.
EnumEnd ==
    /\ cpc = "idle" /\ ~cw.has /\ cw.closed
    /\ cpc' = "drained"
    /\ UNCHANGED << cfs, sfs, beforeVars, envVars, optionVars, ctodo, myNext, myAny, svrNext, svrAny,
                    cpend, handled, cw, serverVars, wireVars, out, mergeVars >>

EnumNext == ClientWalk \/ EnumTake \/ EnumEnd

SpecEnum == EnumInit /\ [][EnumNext]_vars

-----------------------------------------------------------------------------
(* The sync loop on its own, over two given ascending sequences.            *)

MergePaths == { NameDash, NameA, NameADash, NameA \o Sep \o NameA }

\* The strictly ascending sequences of at most MaxSeqLen FileInfos.
MergeSeqs ==
    { [i \in 1..Len(SortPaths(S)) |-> [NoFile EXCEPT !.path = SortPaths(S)[i]]]
        : S \in { S \in SUBSET MergePaths : Cardinality(S) <= MaxSeqLen } }

\* <-myFiles on a channel that yields the rest of a sequence
Pop(s) == IF s = << >> THEN << NoFile, FALSE, << >> >> ELSE << Head(s), TRUE, Tail(s) >>

MergeInit ==
    /\ L0 \in MergeSeqs /\ R0 \in MergeSeqs
    /\ L = L0 /\ R = R0
    /\ cpc = "start" /\ ctodo = << >>
    /\ myNext = NoFile /\ myAny = FALSE /\ svrNext = NoFile /\ svrAny = FALSE
    /\ cpend = [fi |-> NoFile, overwrite |-> FALSE]
    /\ keepWhose = "" /\ autoDelete = FALSE /\ interactive = FALSE
    /\ handled = << >>
    /\ cfs = EmptyFs /\ cfs0 = EmptyFs /\ cw = WalkerNone /\ out = << >>
    /\ IdleServer /\ IdleWire /\ IdleEnv

\* runClient, the two reads before the loop
MergeStart ==
    /\ cpc = "start"
    /\ myNext' = Pop(L)[1] /\ myAny' = Pop(L)[2] /\ L' = Pop(L)[3]
    /\ svrNext' = Pop(R)[1] /\ svrAny' = Pop(R)[2] /\ R' = Pop(R)[3]
    /\ cpc' = "loop"
    /\ UNCHANGED << cfs, sfs, beforeVars, envVars, optionVars, ctodo, cpend, handled, cw,
                    serverVars, wireVars, out, L0, R0 >>

\* One iteration of the loop of runClient.
MergeStep ==
    /\ cpc = "loop" /\ (myAny \/ svrAny)
    /\ LET cat == Classify(myAny, svrAny, myNext.path, svrNext.path)
       IN  /\ handled' = Append(handled, Handled(cat, "none", myNext, svrNext))
           /\ IF cat = "MISSING" THEN UNCHANGED << myNext, myAny, L >>
              ELSE myNext' = Pop(L)[1] /\ myAny' = Pop(L)[2] /\ L' = Pop(L)[3]
           /\ IF cat = "NEW" THEN UNCHANGED << svrNext, svrAny, R >>
              ELSE svrNext' = Pop(R)[1] /\ svrAny' = Pop(R)[2] /\ R' = Pop(R)[3]
    /\ UNCHANGED << cfs, sfs, beforeVars, envVars, optionVars, cpc, ctodo, cpend, cw,
                    serverVars, wireVars, out, L0, R0 >>

\* The loop's condition is false.
MergeEnd ==
    /\ cpc = "loop" /\ ~myAny /\ ~svrAny
    /\ cpc' = "done"
    /\ UNCHANGED << cfs, sfs, beforeVars, envVars, optionVars, ctodo, myNext, myAny, svrNext, svrAny,
                    cpend, handled, cw, serverVars, wireVars, out, mergeVars >>

MergeNext == MergeStart \/ MergeStep \/ MergeEnd

SpecMerge == MergeInit /\ [][MergeNext]_vars

-----------------------------------------------------------------------------
(* Messages.  A message travels as the value it carries; a File message     *)
(* carries the FileInfo its sender wrote, the number of body bytes, the     *)
(* content, and whether the sender got as far as the terminator.            *)

ProtoVersion == 1
CmdRequestNextFileInfo == 0

Msg(type) == [type |-> type, n |-> 0, b |-> FALSE, path |-> << >>, fi |-> NoFile,
              data |-> "", term |-> TRUE]
MVersion(v) == [Msg("Version") EXCEPT !.n = v]
MBool(b) == [Msg("Bool") EXCEPT !.b = b]
MCommand(c) == [Msg("Command") EXCEPT !.n = c]
MFileInfo(fi) == [Msg("FileInfo") EXCEPT !.fi = fi]
MFileOffer(fi) == [Msg("FileOffer") EXCEPT !.fi = fi]
MFileRequest(path) == [Msg("FileRequest") EXCEPT !.path = path]
MFileDeletionRequest(path) == [Msg("FileDeletionRequest") EXCEPT !.path = path]
MFile(fi, n, data, term) ==
    [Msg("File") EXCEPT !.fi = fi, !.n = n, !.data = data, !.term = term]

-----------------------------------------------------------------------------
(* File transfer *)

\* sendFile(conn, fi, path): what the sender puts on the stream.  The File
\* tag is written before the file is opened and the FileInfo once it is
\* open; io.Copy sends the whole file (of a directory it can read nothing),
\* and the terminator follows only if that was fi.Size bytes.
sendFile(fs, fi, p) ==
    IF ~Exists(fs, p) THEN MFile(NoFile, 0, "", FALSE)
    ELSE IF fs[p].isDir THEN MFile(fi, 0, "", FALSE)
    ELSE MFile(fi, fs[p].size, fs[p].data, fs[p].size = fi.size)

\* sendFile returns nil.
sendFileOk(fs, fi, p) == Exists(fs, p) /\ ~fs[p].isDir /\ fs[p].size = fi.size

\* The sizes of files are counted in units of 2^30 bytes: MaxFileSize is
\* 1024 * 1024 * 1024 * 32 bytes.
MaxFileSize == 32

\* recvFile returns nil: the target may be written, the stream holds a
\* complete File message for the expected path and of a size within
\* MaxFileSize, and the rename succeeds.
\* A faulty variant that renames without having checked the terminator, and
\* the condition.
recvFileOkMutNoTerminator(fs, expected, target, overwrite, m) ==
    /\ overwrite \/ ~Exists(fs, target)
    /\ m.type = "File"
    /\ m.fi.path = expected.path
    /\ m.fi.size <= MaxFileSize
    /\ m.n = m.fi.size
    /\ RenameOk(fs, target)

recvFileOk(fs, expected, target, overwrite, m) ==
    /\ overwrite \/ ~Exists(fs, target)
    /\ m.type = "File"
    /\ m.fi.path = expected.path
    /\ m.fi.size <= MaxFileSize
    /\ m.n = m.fi.size /\ m.term
    /\ RenameOk(fs, target)

\* recvFile: the temp file (mode 0600) renamed onto the target, with the
\* modification time of the received FileInfo.
recvFile(fs, target, m) ==
    Put(fs, target, [isDir |-> FALSE, mode |-> 384, mtime |-> m.fi.modTime,
                     size |-> m.n, data |-> m.data])

-----------------------------------------------------------------------------
(* The client's choice of action *)

\* runClient: the branch for a path the client lacks.
\* A faulty variant that never asks for a deletion, and the branch.
MissingActionMutAlwaysFetch(keep, del, fi) ==
    IF fi.isDir THEN "mkdir" ELSE "fetch"
MissingAction(keep, del, fi) ==
    IF keep = "mine" /\ del THEN "delete-remote"
    ELSE IF fi.isDir THEN "mkdir"
    ELSE "fetch"

\* runClient: the branch for a path the server lacks.
\* A faulty variant that never deletes locally, and the branch.
NewActionMutAlwaysOffer(keep, del) == "offer"
NewAction(keep, del) ==
    IF keep = "theirs" /\ del THEN "delete-local" ELSE "offer"

\* resolve(conn, root, mine, theirs)
\* Faulty variants: --keep ignored, the older file winning, equal files not
\* recognised; and resolve itself.
resolveMutIgnoreKeep(mine, theirs, keep) ==
    IF mine.isDir \/ theirs.isDir THEN
        IF mine.isDir # theirs.isDir THEN "tree-conflict" ELSE "same-dir"
    ELSE IF mine.size = theirs.size /\ mine.modTime = theirs.modTime THEN "match"
    ELSE IF mine.modTime > theirs.modTime THEN "give"
    ELSE IF theirs.modTime > mine.modTime THEN "accept"
    ELSE "warn"
resolveMutOlderWins(mine, theirs, keep) ==
    IF mine.isDir \/ theirs.isDir THEN
        IF mine.isDir # theirs.isDir THEN "tree-conflict" ELSE "same-dir"
    ELSE IF mine.size = theirs.size /\ mine.modTime = theirs.modTime THEN "match"
    ELSE IF keep = "mine" \/ (keep = "" /\ mine.modTime < theirs.modTime) THEN "give"
    ELSE IF keep = "theirs" \/ (keep = "" /\ theirs.modTime < mine.modTime) THEN "accept"
    ELSE "warn"
resolveMutNoMatch(mine, theirs, keep) ==
    IF mine.isDir \/ theirs.isDir THEN
        IF mine.isDir # theirs.isDir THEN "tree-conflict" ELSE "same-dir"
    ELSE IF keep = "mine" \/ (keep = "" /\ mine.modTime > theirs.modTime) THEN "give"
    ELSE IF keep = "theirs" \/ (keep = "" /\ theirs.modTime > mine.modTime) THEN "accept"
    ELSE "warn"
resolve(mine, theirs, keep) ==
    IF mine.isDir \/ theirs.isDir THEN
        IF mine.isDir # theirs.isDir THEN "tree-conflict" ELSE "same-dir"
    ELSE IF mine.size = theirs.size /\ mine.modTime = theirs.modTime THEN "match"
    ELSE IF keep = "mine" \/ (keep = "" /\ mine.modTime > theirs.modTime) THEN "give"
    ELSE IF keep = "theirs" \/ (keep = "" /\ theirs.modTime > mine.modTime) THEN "accept"
    ELSE "warn"

\* The overwrite argument of requestAndSaveFile in runClient and in resolve.
MissingOverwrite == FALSE
ResolveOverwrite == TRUE

\* The options of the prompts, as the bytes of their names: "give",
\* "accept", "delete" and "skip".
OptGive == << 103, 105, 118, 101 >>
OptAccept == << 97, 99, 99, 101, 112, 116 >>
OptDelete == << 100, 101, 108, 101, 116, 101 >>
OptSkip == << 115, 107, 105, 112 >>

\* promptForAction: the options it passes to requestUserInput for a
\* conflicting, a missing and a new path.
PromptOptions(cat) ==
    IF cat = "MISSING" THEN << OptAccept, OptDelete, OptSkip >>
    ELSE IF cat = "NEW" THEN << OptGive, OptDelete, OptSkip >>
    ELSE << OptGive, OptAccept, OptSkip >>

\* What the user types at a prompt: a line (given without its newline and
\* surrounding blanks, as strings.TrimSpace leaves it), or the end of the
\* input.
UserLine(line) == [eof |-> FALSE, line |-> line]
UserEof == [eof |-> TRUE, line |-> << >>]

\* requestUserInput, one turn of its loop: the option it returns, or a
\* repetition of the prompt, or a run-time panic.  Each option in turn is
\* taken if the line equals it or begins with its first byte; line[0] of an
\* empty line is out of range.  ReadString's error at the end of the input
\* goes to checkError.
UserAnswer(kind, opt) == [kind |-> kind, opt |-> opt]
RECURSIVE matchOption(_, _)
matchOption(line, options) ==
    IF options = << >> THEN UserAnswer("invalid", << >>)
    ELSE IF line = Head(options) THEN UserAnswer("option", Head(options))
    ELSE IF line = << >> THEN UserAnswer("panic", << >>)
    ELSE IF line[1] = Head(options)[1] THEN UserAnswer("option", Head(options))
    ELSE matchOption(line, Tail(options))

\* A faulty variant that takes the first option whatever the line is, and
\* requestUserInput.
requestUserInputMutFirstOption(input, options) ==
    IF input.eof THEN UserAnswer("panic", << >>)
    ELSE UserAnswer("option", Head(options))

requestUserInput(input, options) ==
    IF input.eof THEN UserAnswer("panic", << >>)
    ELSE matchOption(input.line, options)

\* promptForAction: the switch on the option returned, for each of the
\* three prompts.
promptForAction(cat, opt, theirs) ==
    IF cat = "MISSING" THEN
        IF opt = OptAccept THEN (IF theirs.isDir THEN "mkdir" ELSE "fetch")
        ELSE IF opt = OptDelete THEN "delete-remote"
        ELSE "skip"
    ELSE IF cat = "NEW" THEN
        IF opt = OptGive THEN "offer"
        ELSE IF opt = OptDelete THEN "delete-local"
        ELSE "skip"
    ELSE
        IF opt = OptGive THEN "give"
        ELSE IF opt = OptAccept THEN "accept"
        ELSE "skip"

\* The overwrite argument of requestAndSaveFile in promptForAction.
PromptOverwrite == TRUE

\* The lines a user types in the runs that are checked: an option in full,
\* options by their first letter, a line that only begins like an option,
\* a line that matches nothing, an empty line; and the end of the input.
UserInputs ==
    { UserLine(l) : l \in { OptGive, << 97 >>, OptDelete, << 115 >>, << 100, 120 >>,
                            << 120 >>, << >> } }
    \cup { UserEof }

-----------------------------------------------------------------------------
(* A client run against a server: the trees and options it starts from.     *)

PathA == NameA
PathADash == NameADash
PathAA == NameA \o Sep \o NameA

\* The trees of the runs: "a" is absent, a file, an empty directory or a
\* directory holding the file "a/a"; the file "a-" is absent or present.
\* All files of a tree have the same size, modification time and content.
SyncTree(a, dash, size, mtime, data) ==
    LET paths == { Dot }
                 \cup (IF a = "none" THEN {} ELSE { PathA })
                 \cup (IF a = "full" THEN { PathAA } ELSE {})
                 \cup (IF dash THEN { PathADash } ELSE {})
    IN  [p \in paths |->
            IF p = Dot \/ (p = PathA /\ a # "file") THEN DirEntry
            ELSE FileEntry(size, mtime, data)]

SyncTrees(size, mtime, data) ==
    { SyncTree(a, dash, size, mtime, data) :
        a \in { "none", "file", "empty", "full" }, dash \in BOOLEAN }

\* The client's files have size 1 and modification time 2; the server's are
\* the same, older, newer, or of another size.
ClientTrees == SyncTrees(1, 2, "c")
ServerTrees ==
    UNION { SyncTrees(1, t, "s") : t \in 1..MaxMTime }
        \cup UNION { SyncTrees(z, 2, "s") : z \in 2..MaxSize }

\* main.go: --delete requires --keep.
ClientOptions ==
    { << k, d >> \in { "", "mine", "theirs" } \X BOOLEAN : d => k # "" }

\* --restrict and --Restrict
ServerOptions == { << FALSE, FALSE >>, << TRUE, FALSE >>, << FALSE, TRUE >> }

Init ==
    /\ cfs \in ClientTrees /\ cfs0 = cfs
    /\ sfs \in ServerTrees /\ sfs0 = sfs
    /\ \E o \in ClientOptions : keepWhose = o[1] /\ autoDelete = o[2]
    /\ interactive = FALSE
    /\ \E o \in ServerOptions : restrict = o[1] /\ restrictAll = o[2]
    /\ cpc = "start" /\ ctodo = << >>
    /\ myNext = NoFile /\ myAny = FALSE /\ svrNext = NoFile /\ svrAny = FALSE
    /\ cw = WalkerNone
    /\ cpend = [fi |-> NoFile, overwrite |-> FALSE]
    /\ spc = "hello" /\ sw = WalkerNone /\ lastSentFilePath = << >> /\ spend = NoFile
    /\ c2s = << >> /\ s2c = << >> /\ cclosed = FALSE
    /\ handled = << >> /\ wire = {}
    /\ out = << >> /\ IdleMerge /\ IdleEnv

-----------------------------------------------------------------------------
(* The client: runClient *)

\* checkError panics and the deferred recover exits with status 1; the
\* process's end of the connection closes.
ClientFails ==
    /\ cpc' = "failed"
    /\ cclosed' = TRUE

\* send Version
ClientStart ==
    /\ cpc = "start"
    /\ c2s' = Append(c2s, MVersion(ProtoVersion))
    /\ wire' = wire \cup { "Version" }
    /\ cpc' = "hello"
    /\ UNCHANGED << cfs, sfs, beforeVars, envVars, optionVars, ctodo, myNext, myAny, svrNext, svrAny,
                    cw, cpend, serverVars, s2c, cclosed, handled, out, mergeVars >>

\* accepted, err := expectBool(conn), then myFiles := enumerateFiles(root)
ClientHello ==
    /\ cpc = "hello" /\ s2c # << >>
    /\ s2c' = Tail(s2c)
    /\ IF Head(s2c).type = "Bool" /\ Head(s2c).b
       THEN /\ cw' = WalkerIdle
            /\ ctodo' = << "mine", "next" >>
            /\ cpc' = "run"
            /\ UNCHANGED cclosed
       ELSE /\ ClientFails
            /\ UNCHANGED << cw, ctodo >>
    /\ UNCHANGED << cfs, sfs, beforeVars, envVars, optionVars, myNext, myAny, svrNext, svrAny,
                    cpend, serverVars, c2s, handled, wire, out, mergeVars >>

\* myNext, myAny = <-myFiles
ClientTakeMine ==
    /\ cpc = "run" /\ ctodo # << >> /\ Head(ctodo) = "mine"
    /\ WalkerCanGive(cw)
    /\ myNext' = cw.ready /\ myAny' = cw.has
    /\ cw' = WalkerTaken(cw)
    /\ ctodo' = Tail(ctodo)
    /\ UNCHANGED << cfs, sfs, beforeVars, envVars, optionVars, cpc, svrNext, svrAny, cpend,
                    serverVars, wireVars, handled, out, mergeVars >>

\* requestNextFileInfo: send the command
ClientRequestNext ==
    /\ cpc = "run" /\ ctodo # << >> /\ Head(ctodo) = "next"
    /\ c2s' = Append(c2s, MCommand(CmdRequestNextFileInfo))
    /\ wire' = wire \cup { "Command" }
    /\ cpc' = "awaitNext"
    /\ UNCHANGED << cfs, sfs, beforeVars, envVars, optionVars, ctodo, myNext, myAny, svrNext, svrAny,
                    cw, cpend, serverVars, s2c, cclosed, handled, out, mergeVars >>

\* requestNextFileInfo: expectBool, and expectFileInfo after a true
\* A faulty variant that keeps the previous head after a false, and the
\* function.
ClientRecvNextMutKeepsHead ==
    /\ cpc = "awaitNext" /\ s2c # << >>
    /\ LET m == Head(s2c)
       IN  IF m.type = "Bool" /\ ~m.b THEN
               /\ s2c' = Tail(s2c)
               /\ UNCHANGED << svrNext, svrAny >>
               /\ ctodo' = Tail(ctodo) /\ cpc' = "run"
               /\ UNCHANGED cclosed
           ELSE IF m.type = "Bool" /\ Len(s2c) >= 2 /\ s2c[2].type = "FileInfo" THEN
               /\ s2c' = Tail(Tail(s2c))
               /\ svrNext' = s2c[2].fi /\ svrAny' = TRUE
               /\ ctodo' = Tail(ctodo) /\ cpc' = "run"
               /\ UNCHANGED cclosed
           ELSE
               /\ s2c' = << >>
               /\ ClientFails
               /\ UNCHANGED << svrNext, svrAny, ctodo >>
    /\ UNCHANGED << cfs, sfs, beforeVars, envVars, optionVars, myNext, myAny, cw, cpend,
                    serverVars, c2s, handled, wire, out, mergeVars >>

ClientRecvNext ==
    /\ cpc = "awaitNext" /\ s2c # << >>
    /\ LET m == Head(s2c)
       IN  IF m.type = "Bool" /\ ~m.b THEN
               /\ s2c' = Tail(s2c)
               /\ svrNext' = NoFile /\ svrAny' = FALSE
               /\ ctodo' = Tail(ctodo) /\ cpc' = "run"
               /\ UNCHANGED cclosed
           ELSE IF m.type = "Bool" /\ Len(s2c) >= 2 /\ s2c[2].type = "FileInfo" THEN
               /\ s2c' = Tail(Tail(s2c))
               /\ svrNext' = s2c[2].fi /\ svrAny' = TRUE
               /\ ctodo' = Tail(ctodo) /\ cpc' = "run"
               /\ UNCHANGED cclosed
           ELSE
               /\ s2c' = << >>
               /\ ClientFails
               /\ UNCHANGED << svrNext, svrAny, ctodo >>
    /\ UNCHANGED << cfs, sfs, beforeVars, envVars, optionVars, myNext, myAny, cw, cpend,
                    serverVars, c2s, handled, wire, out, mergeVars >>

\* requestFileDeletion: send the request
requestFileDeletion(h, path, todo) ==
    /\ handled' = Append(handled,
           [h EXCEPT !.op = "requestFileDeletion", !.sent = "FileDeletionRequest"])
    /\ c2s' = Append(c2s, MFileDeletionRequest(path))
    /\ wire' = wire \cup { "FileDeletionRequest" }
    /\ cpc' = "awaitDeletion" /\ ctodo' = todo
    /\ UNCHANGED << cfs, cpend, cclosed >>

\* requestAndSaveFile: a directory is created at once, a file is requested
requestAndSaveFile(h, fi, overwrite, todo) ==
    IF fi.isDir THEN
        /\ handled' = Append(handled, [h EXCEPT !.op = "mkdir", !.overwrite = overwrite])
        /\ IF MkdirOk(cfs, fi.path)
           THEN /\ cfs' = Mkdir(cfs, fi.path, fi.mode)
                /\ cpc' = "run" /\ ctodo' = todo
                /\ UNCHANGED << c2s, wire, cpend, cclosed >>
           ELSE /\ ClientFails
                /\ UNCHANGED << cfs, c2s, wire, cpend, ctodo >>
    ELSE
        /\ handled' = Append(handled,
               [h EXCEPT !.op = "requestFile", !.sent = "FileRequest",
                         !.overwrite = overwrite])
        /\ c2s' = Append(c2s, MFileRequest(fi.path))
        /\ wire' = wire \cup { "FileRequest" }
        /\ cpend' = [fi |-> fi, overwrite |-> overwrite]
        /\ cpc' = "awaitRequest" /\ ctodo' = todo
        /\ UNCHANGED << cfs, cclosed >>

\* offerAndSendFile: send the offer
\* A faulty variant that does not wait for the answer to the offer, and the
\* operation.
offerAndSendFileMutNoWait(h, fi, todo) ==
    /\ handled' = Append(handled, [h EXCEPT !.op = "offer", !.sent = "FileOffer"])
    /\ c2s' = Append(c2s, MFileOffer(fi))
    /\ wire' = wire \cup { "FileOffer" }
    /\ cpend' = [fi |-> fi, overwrite |-> FALSE]
    /\ cpc' = "run" /\ ctodo' = todo
    /\ UNCHANGED << cfs, cclosed >>

offerAndSendFile(h, fi, todo) ==
    /\ handled' = Append(handled, [h EXCEPT !.op = "offer", !.sent = "FileOffer"])
    /\ c2s' = Append(c2s, MFileOffer(fi))
    /\ wire' = wire \cup { "FileOffer" }
    /\ cpend' = [fi |-> fi, overwrite |-> FALSE]
    /\ cpc' = "awaitOffer" /\ ctodo' = todo
    /\ UNCHANGED << cfs, cclosed >>

\* deleteLocalFile
deleteLocalFile(h, path, todo) ==
    /\ handled' = Append(handled, [h EXCEPT !.op = "deleteLocalFile"])
    /\ cfs' = RemoveAll(cfs, path)
    /\ cpc' = "run" /\ ctodo' = todo
    /\ UNCHANGED << c2s, wire, cpend, cclosed >>

\* Nothing is done for the path.
skipPath(h, todo) ==
    /\ handled' = Append(handled, h)
    /\ cpc' = "run" /\ ctodo' = todo
    /\ UNCHANGED << cfs, c2s, wire, cpend, cclosed >>

\* The action chosen for the path is carried out, up to the first answer it
\* waits for.
\* A faulty variant that asks for the deletion of the client's own head, and
\* the dispatch.
clientDoesMutDeletesMine(h, act, missingOverwrite, todo) ==
    CASE act = "delete-remote" -> requestFileDeletion(h, myNext.path, todo)
      [] act \in { "mkdir", "fetch" } ->
             requestAndSaveFile(h, svrNext, missingOverwrite, todo)
      [] act = "delete-local" -> deleteLocalFile(h, myNext.path, todo)
      [] act \in { "offer", "give" } -> offerAndSendFile(h, myNext, todo)
      [] act = "accept" -> requestAndSaveFile(h, svrNext, ResolveOverwrite, todo)
      [] OTHER -> skipPath(h, todo)

clientDoes(h, act, missingOverwrite, todo) ==
    CASE act = "delete-remote" -> requestFileDeletion(h, svrNext.path, todo)
      [] act \in { "mkdir", "fetch" } ->
             requestAndSaveFile(h, svrNext, missingOverwrite, todo)
      [] act = "delete-local" -> deleteLocalFile(h, myNext.path, todo)
      [] act \in { "offer", "give" } -> offerAndSendFile(h, myNext, todo)
      [] act = "accept" -> requestAndSaveFile(h, svrNext, ResolveOverwrite, todo)
      [] OTHER -> skipPath(h, todo)

\* One iteration of the loop of runClient, up to the first answer it waits
\* for.  With --interactive every missing and new path, and every pair of
\* differing files, is put to the user: a line the prompt does not accept
\* repeats the prompt, and a panic ends the client.
ClientLoop ==
    /\ cpc = "run" /\ ctodo = << >> /\ (myAny \/ svrAny)
    /\ LET cat == Classify(myAny, svrAny, myNext.path, svrNext.path)
           act == IF cat = "MISSING" THEN MissingAction(keepWhose, autoDelete, svrNext)
                  ELSE IF cat = "NEW" THEN NewAction(keepWhose, autoDelete)
                  ELSE resolve(myNext, svrNext, keepWhose)
           todo == IF cat = "MISSING" THEN << "next" >>
                   ELSE IF cat = "NEW" THEN << "mine" >>
                   ELSE << "mine", "next" >>
           h == Handled(cat, act, myNext, svrNext)
           prompts == interactive /\ act \notin { "tree-conflict", "same-dir", "match" }
       IN  IF prompts THEN
               \E input \in UserInputs :
                   LET r == requestUserInput(input, PromptOptions(cat))
                       chosen == promptForAction(cat, r.opt, svrNext)
                       asked == [h EXCEPT !.asked = TRUE, !.line = input.line]
                   IN  CASE r.kind = "panic" ->
                                /\ handled' = Append(handled,
                                       [asked EXCEPT !.act = IF input.eof THEN "eof"
                                                             ELSE "panic"])
                                /\ ClientFails
                                /\ UNCHANGED << cfs, c2s, wire, cpend, ctodo >>
                         [] r.kind = "invalid" ->
                                UNCHANGED << handled, cfs, c2s, wire, cpend, cclosed, cpc,
                                             ctodo >>
                         [] OTHER ->
                                clientDoes([asked EXCEPT !.act = chosen], chosen,
                                           PromptOverwrite, todo)
           ELSE clientDoes(h, act, MissingOverwrite, todo)
    /\ UNCHANGED << sfs, beforeVars, envVars, optionVars, myNext, myAny, svrNext, svrAny, cw,
                    serverVars, s2c, out, mergeVars >>

\* offerAndSendFile: expectBool, and sendFile after a true
ClientRecvOffer ==
    /\ cpc = "awaitOffer" /\ s2c # << >>
    /\ s2c' = Tail(s2c)
    /\ LET m == Head(s2c)
       IN  IF m.type # "Bool" THEN
               ClientFails /\ UNCHANGED << c2s, wire >>
           ELSE IF ~m.b THEN
               cpc' = "run" /\ UNCHANGED << c2s, wire, cclosed >>
           ELSE
               /\ c2s' = Append(c2s, sendFile(cfs, cpend.fi, cpend.fi.path))
               /\ wire' = wire \cup { "File" }
               /\ IF sendFileOk(cfs, cpend.fi, cpend.fi.path)
                  THEN cpc' = "run" /\ UNCHANGED cclosed
                  ELSE ClientFails
    /\ UNCHANGED << cfs, sfs, beforeVars, envVars, optionVars, ctodo, myNext, myAny, svrNext, svrAny,
                    cw, cpend, serverVars, handled, out, mergeVars >>

\* requestAndSaveFile: expectBool, and recvFile after a true
ClientRecvRequest ==
    /\ cpc = "awaitRequest" /\ s2c # << >>
    /\ LET m == Head(s2c)
       IN  IF m.type = "Bool" /\ ~m.b THEN
               /\ s2c' = Tail(s2c)
               /\ cpc' = "run"
               /\ UNCHANGED << cfs, cclosed >>
           ELSE IF /\ m.type = "Bool" /\ Len(s2c) >= 2
                   /\ recvFileOk(cfs, cpend.fi, cpend.fi.path, cpend.overwrite, s2c[2]) THEN
               /\ s2c' = Tail(Tail(s2c))
               /\ cfs' = recvFile(cfs, cpend.fi.path, s2c[2])
               /\ cpc' = "run"
               /\ UNCHANGED cclosed
           ELSE
               /\ s2c' = << >>
               /\ ClientFails
               /\ UNCHANGED cfs
    /\ UNCHANGED << sfs, beforeVars, envVars, optionVars, ctodo, myNext, myAny, svrNext, svrAny,
                    cw, cpend, serverVars, c2s, handled, wire, out, mergeVars >>

\* requestFileDeletion: expectBool; a refusal is only logged
\* A faulty variant that takes a refusal for an error, and the step.
ClientRecvDeletionMutRefusalFails ==
    /\ cpc = "awaitDeletion" /\ s2c # << >>
    /\ s2c' = Tail(s2c)
    /\ IF Head(s2c).type = "Bool" /\ Head(s2c).b
       THEN cpc' = "run" /\ UNCHANGED cclosed
       ELSE ClientFails
    /\ UNCHANGED << cfs, sfs, beforeVars, envVars, optionVars, ctodo, myNext, myAny, svrNext, svrAny,
                    cw, cpend, serverVars, c2s, handled, wire, out, mergeVars >>

ClientRecvDeletion ==
    /\ cpc = "awaitDeletion" /\ s2c # << >>
    /\ s2c' = Tail(s2c)
    /\ IF Head(s2c).type = "Bool"
       THEN cpc' = "run" /\ UNCHANGED cclosed
       ELSE ClientFails
    /\ UNCHANGED << cfs, sfs, beforeVars, envVars, optionVars, ctodo, myNext, myAny, svrNext, svrAny,
                    cw, cpend, serverVars, c2s, handled, wire, out, mergeVars >>

\* The loop's condition is false: "Complete, disconnecting."
ClientDone ==
    /\ cpc = "run" /\ ctodo = << >> /\ ~myAny /\ ~svrAny
    /\ cpc' = "done"
    /\ cclosed' = TRUE
    /\ UNCHANGED << cfs, sfs, beforeVars, envVars, optionVars, ctodo, myNext, myAny, svrNext, svrAny,
                    cw, cpend, serverVars, c2s, s2c, handled, wire, out, mergeVars >>

-----------------------------------------------------------------------------
(* The server: handleConnection and its handlers *)

\* os.Stat fails with an error that os.IsNotExist recognises: the path is
\* absent and every directory on the way to it exists.  Beneath a regular
\* file the error is ENOTDIR, which os.IsNotExist does not recognise.
BeneathFile(fs, p) == \E d \in DOMAIN fs : ~fs[d].isDir /\ IsUnder(p, d)

\* A faulty variant that takes ENOTDIR for "does not exist", and the test.
IsNotExistMutEnotdir(fs, p) == ~Exists(fs, p)

IsNotExist(fs, p) == ~Exists(fs, p) /\ ~BeneathFile(fs, p)

\* path.Join(root, p): the empty path names the root itself.
InRoot(p) == IF p = << >> THEN Dot ELSE p

\* A faulty variant of the handling of a panic inside handleConnection, in
\* which nothing recovers the panic and the process exits.
ServerAbortsMutExit == spc' = "exited"

\* A panic inside handleConnection: the deferred recover logs it and the
\* server goes back to accepting.
ServerAborts == spc' = "aborted"

\* The enumerator goroutine of the server runs up to its next hand-off.
ServerWalk ==
    /\ WalkerCanRun(sw)
    /\ sw' = WalkStep(sfs, sw)
    /\ UNCHANGED << cfs, sfs, beforeVars, envVars, optionVars, clientVars, cw, spc, lastSentFilePath,
                    spend, wireVars, out, mergeVars >>

\* handleConnection: version != ProtoVersion is false.
\* A faulty variant that lets every version pass, and the comparison.
versionMatchesMutAny(version) == TRUE

versionMatches(version) == version = ProtoVersion

\* expectVersion, the answer, and files := enumerateFiles(root)
ServerHello ==
    /\ spc = "hello" /\ c2s # << >>
    /\ c2s' = Tail(c2s)
    /\ LET m == Head(c2s)
       IN  IF m.type # "Version" THEN
               ServerAborts /\ UNCHANGED << s2c, wire, sw >>
           ELSE IF ~versionMatches(m.n) THEN
               /\ s2c' = Append(s2c, MBool(FALSE))
               /\ wire' = wire \cup { "Bool" }
               /\ spc' = "ended"
               /\ UNCHANGED sw
           ELSE
               /\ s2c' = Append(s2c, MBool(TRUE))
               /\ wire' = wire \cup { "Bool" }
               /\ sw' = WalkerIdle
               /\ spc' = "loop"
    /\ UNCHANGED << cfs, sfs, beforeVars, envVars, optionVars, clientVars, cw, lastSentFilePath,
                    spend, cclosed, out, mergeVars >>

\* handleCmdRequestNextFileInfo
handleCmdRequestNextFileInfo ==
    /\ WalkerCanGive(sw)
    /\ IF sw.has
       THEN /\ s2c' = s2c \o << MBool(TRUE), MFileInfo(sw.ready) >>
            /\ wire' = wire \cup { "Bool", "FileInfo" }
            /\ lastSentFilePath' = sw.ready.path
            /\ sw' = WalkerTaken(sw)
       ELSE /\ s2c' = Append(s2c, MBool(FALSE))
            /\ wire' = wire \cup { "Bool" }
            /\ UNCHANGED << lastSentFilePath, sw >>
    /\ UNCHANGED << sfs, spc, spend >>

\* handleMsgFileDeletionRequest
\* A faulty variant that does not look at restrict and restrictAll, and the
\* handler.
handleMsgFileDeletionRequestMutUnrestricted(req) ==
    /\ IF lastSentFilePath # req.path THEN
           s2c' = Append(s2c, MBool(FALSE)) /\ UNCHANGED sfs
       ELSE
           /\ s2c' = Append(s2c, MBool(TRUE))
           /\ sfs' = RemoveAll(sfs, InRoot(req.path))
    /\ wire' = wire \cup { "Bool" }
    /\ UNCHANGED << spc, spend, lastSentFilePath, sw >>

handleMsgFileDeletionRequest(req) ==
    /\ IF restrict \/ restrictAll THEN
           s2c' = Append(s2c, MBool(FALSE)) /\ UNCHANGED sfs
       ELSE IF lastSentFilePath # req.path THEN
           s2c' = Append(s2c, MBool(FALSE)) /\ UNCHANGED sfs
       ELSE
           /\ s2c' = Append(s2c, MBool(TRUE))
           /\ sfs' = RemoveAll(sfs, InRoot(req.path))
    /\ wire' = wire \cup { "Bool" }
    /\ UNCHANGED << spc, spend, lastSentFilePath, sw >>

\* handleMsgFileRequest
handleMsgFileRequest(req) ==
    /\ LET abs == InRoot(req.path)
       IN  IF IsNotExist(sfs, abs) THEN
               /\ s2c' = Append(s2c, MBool(FALSE))
               /\ wire' = wire \cup { "Bool" }
               /\ UNCHANGED spc
           ELSE IF ~Exists(sfs, abs) THEN
               /\ s2c' = Append(s2c, MBool(TRUE))
               /\ wire' = wire \cup { "Bool" }
               /\ ServerAborts
           ELSE
               /\ s2c' = s2c \o << MBool(TRUE), sendFile(sfs, fileInfo(sfs, abs), abs) >>
               /\ wire' = wire \cup { "Bool", "File" }
               /\ IF sendFileOk(sfs, fileInfo(sfs, abs), abs)
                  THEN UNCHANGED spc
                  ELSE ServerAborts
    /\ UNCHANGED << sfs, spend, lastSentFilePath, sw >>

\* handleMsgFileOffer
\* A faulty variant that answers true after creating an offered directory,
\* and the handler.
handleMsgFileOfferMutAcceptsDir(offer) ==
    /\ LET path == InRoot(offer.fi.path)
       IN  IF restrictAll /\ ~IsNotExist(sfs, path) THEN
               /\ s2c' = Append(s2c, MBool(FALSE))
               /\ wire' = wire \cup { "Bool" }
               /\ UNCHANGED << sfs, spc, spend >>
           ELSE IF offer.fi.isDir THEN
               IF MkdirOk(sfs, path)
               THEN /\ sfs' = Mkdir(sfs, path, offer.fi.mode)
                    /\ s2c' = Append(s2c, MBool(TRUE))
                    /\ wire' = wire \cup { "Bool" }
                    /\ UNCHANGED << spc, spend >>
               ELSE /\ ServerAborts
                    /\ UNCHANGED << sfs, s2c, wire, spend >>
           ELSE
               /\ s2c' = Append(s2c, MBool(TRUE))
               /\ wire' = wire \cup { "Bool" }
               /\ spc' = "recvFile"
               /\ spend' = offer.fi
               /\ UNCHANGED sfs
    /\ UNCHANGED << lastSentFilePath, sw >>

handleMsgFileOffer(offer) ==
    /\ LET path == InRoot(offer.fi.path)
       IN  IF restrictAll /\ ~IsNotExist(sfs, path) THEN
               /\ s2c' = Append(s2c, MBool(FALSE))
               /\ wire' = wire \cup { "Bool" }
               /\ UNCHANGED << sfs, spc, spend >>
           ELSE IF offer.fi.isDir THEN
               IF MkdirOk(sfs, path)
               THEN /\ sfs' = Mkdir(sfs, path, offer.fi.mode)
                    /\ s2c' = Append(s2c, MBool(FALSE))
                    /\ wire' = wire \cup { "Bool" }
                    /\ UNCHANGED << spc, spend >>
               ELSE /\ ServerAborts
                    /\ UNCHANGED << sfs, s2c, wire, spend >>
           ELSE
               /\ s2c' = Append(s2c, MBool(TRUE))
               /\ wire' = wire \cup { "Bool" }
               /\ spc' = "recvFile"
               /\ spend' = offer.fi
               /\ UNCHANGED sfs
    /\ UNCHANGED << lastSentFilePath, sw >>

\* handleConnection: one turn of the command loop
ServerLoop ==
    /\ spc = "loop" /\ c2s # << >>
    /\ c2s' = Tail(c2s)
    /\ LET m == Head(c2s)
       IN  CASE m.type = "Command" /\ m.n = CmdRequestNextFileInfo ->
                    handleCmdRequestNextFileInfo
             [] m.type = "FileDeletionRequest" -> handleMsgFileDeletionRequest(m)
             [] m.type = "FileOffer" -> handleMsgFileOffer(m)
             [] m.type = "FileRequest" -> handleMsgFileRequest(m)
             [] OTHER -> /\ ServerAborts
                         /\ UNCHANGED << sfs, s2c, wire, spend, lastSentFilePath, sw >>
    /\ UNCHANGED << cfs, beforeVars, envVars, optionVars, clientVars, cw, cclosed, out, mergeVars >>

\* handleMsgFileOffer: recvFile(conn, offer.Info, path, true)
ServerRecvFile ==
    /\ spc = "recvFile" /\ c2s # << >>
    /\ c2s' = Tail(c2s)
    /\ IF recvFileOk(sfs, spend, InRoot(spend.path), TRUE, Head(c2s))
       THEN /\ sfs' = recvFile(sfs, InRoot(spend.path), Head(c2s))
            /\ spc' = "loop"
       ELSE /\ ServerAborts
            /\ UNCHANGED sfs
    /\ UNCHANGED << cfs, beforeVars, envVars, optionVars, clientVars, cw, sw, lastSentFilePath,
                    spend, s2c, cclosed, wire, out, mergeVars >>

\* The stream has ended: a clean end of the session between two messages, an
\* error anywhere else.
ServerEof ==
    /\ spc \in { "hello", "loop", "recvFile" } /\ c2s = << >> /\ cclosed
    /\ spc' = IF spc = "loop" THEN "ended" ELSE "aborted"
    /\ UNCHANGED << cfs, sfs, beforeVars, envVars, optionVars, clientVars, cw, sw, lastSentFilePath,
                    spend, wireVars, out, mergeVars >>

Next ==
    \/ ClientStart \/ ClientHello \/ ClientWalk \/ ClientTakeMine \/ ClientRequestNext
    \/ ClientRecvNext \/ ClientLoop \/ ClientRecvOffer \/ ClientRecvRequest
    \/ ClientRecvDeletion \/ ClientDone
    \/ ServerWalk \/ ServerHello \/ ServerLoop \/ ServerRecvFile \/ ServerEof

Spec == Init /\ [][Next]_vars

\* Runs of the client with and without --interactive, against a server whose
\* files are older than the client's.
InteractiveInit ==
    /\ cfs \in ClientTrees /\ cfs0 = cfs
    /\ sfs \in SyncTrees(1, 1, "s") /\ sfs0 = sfs
    /\ \E o \in ClientOptions : keepWhose = o[1] /\ autoDelete = o[2]
    /\ interactive \in BOOLEAN
    /\ \E o \in ServerOptions : restrict = o[1] /\ restrictAll = o[2]
    /\ cpc = "start" /\ ctodo = << >>
    /\ myNext = NoFile /\ myAny = FALSE /\ svrNext = NoFile /\ svrAny = FALSE
    /\ cw = WalkerNone
    /\ cpend = [fi |-> NoFile, overwrite |-> FALSE]
    /\ spc = "hello" /\ sw = WalkerNone /\ lastSentFilePath = << >> /\ spend = NoFile
    /\ c2s = << >> /\ s2c = << >> /\ cclosed = FALSE
    /\ handled = << >> /\ wire = {}
    /\ out = << >> /\ IdleMerge /\ IdleEnv

SpecInteractive == InteractiveInit /\ [][Next]_vars

-----------------------------------------------------------------------------
(* The server process over several connections, one after the other          *)
(* (runServer handles a connection to its end before it accepts the next),   *)
(* and either program talking to a peer that is not zync.  A session is of   *)
(* kind "zync" (client and server are both zync), "any" (the server with an  *)
(* arbitrary client) or "peer" (the client with an arbitrary server).        *)

\* The connections the server accepts in a run.
MaxSessions == 2
\* The messages an arbitrary peer sends on one connection.
MaxAnySends == 4

AnyFile(p) == [path |-> p, isDir |-> FALSE, mode |-> 420, modTime |-> 3, size |-> 1]
AnyDir(p) == [path |-> p, isDir |-> TRUE, mode |-> 493, modTime |-> 0, size |-> 0]

\* File messages: complete, cut short, with a wrong terminator, complete but
\* for another path than the one expected, complete but larger than
\* MaxFileSize, and with a negative size and no body.
AnyFileMessages(p) ==
    { MFile(AnyFile(p), 1, "x", TRUE),
      MFile(AnyFile(p), 0, "", FALSE),
      MFile(AnyFile(p), 1, "x", FALSE),
      MFile(AnyFile(PathADash), 1, "x", TRUE),
      MFile([AnyFile(p) EXCEPT !.size = MaxFileSize + 1], MaxFileSize + 1, "x", TRUE),
      MFile([AnyFile(p) EXCEPT !.size = -1], 0, "", TRUE) }

\* What an arbitrary client may write to the connection.
AnyClientMessages ==
    { MVersion(ProtoVersion), MVersion(ProtoVersion + 1),
      MCommand(CmdRequestNextFileInfo), MCommand(CmdRequestNextFileInfo + 1),
      MBool(TRUE) }
    \cup { MFileDeletionRequest(p) : p \in { << >>, Dot, PathA, PathAA } }
    \cup { MFileRequest(p) : p \in { PathA, PathAA } }
    \cup { MFileOffer(AnyFile(p)) : p \in { PathA, PathAA } }
    \cup { MFileOffer(AnyDir(PathA)) }
    \cup AnyFileMessages(PathA)

\* What an arbitrary server may write in one go.
AnyServerMessages ==
    { << MBool(TRUE) >>, << MBool(FALSE) >>, << MVersion(ProtoVersion) >>,
      << MBool(TRUE), MFileInfo(AnyFile(PathA)) >> }
    \cup { << MBool(TRUE), m >> : m \in AnyFileMessages(PathA) }

SessClientTrees == { SyncTree("full", FALSE, 1, 2, "c"), SyncTree("none", TRUE, 1, 2, "c") }
SessServerTrees ==
    { SyncTree("full", TRUE, 1, 1, "s"), SyncTree("file", FALSE, 1, 1, "s"),
      SyncTree("none", FALSE, 1, 1, "s") }
SessClientOptions == { << "", FALSE >>, << "mine", TRUE >> }

\* The two ends of a fresh connection of the given kind.
ClientAt(kind) == IF kind = "any" THEN "off" ELSE "start"
ServerAt(kind) == IF kind = "peer" THEN "off" ELSE "hello"
SendsOf(kind) == IF kind = "zync" THEN 0 ELSE MaxAnySends

SessInit ==
    /\ cfs \in SessClientTrees /\ cfs0 = cfs
    /\ sfs \in SessServerTrees /\ sfs0 = sfs
    /\ \E o \in SessClientOptions : keepWhose = o[1] /\ autoDelete = o[2]
    /\ interactive = FALSE
    /\ \E o \in ServerOptions : restrict = o[1] /\ restrictAll = o[2]
    /\ \E k \in { "zync", "any", "peer" } :
          /\ sess = [n |-> 1, kind |-> k, left |-> SendsOf(k), prev |-> "none"]
          /\ cpc = ClientAt(k) /\ spc = ServerAt(k)
    /\ ctodo = << >>
    /\ myNext = NoFile /\ myAny = FALSE /\ svrNext = NoFile /\ svrAny = FALSE
    /\ cw = WalkerNone
    /\ cpend = [fi |-> NoFile, overwrite |-> FALSE]
    /\ sw = WalkerNone /\ lastSentFilePath = << >> /\ spend = NoFile
    /\ c2s = << >> /\ s2c = << >> /\ cclosed = FALSE
    /\ handled = << >> /\ wire = {}
    /\ out = << >> /\ IdleMerge /\ codec = IdleCodec

\* The client of the session plays no further part in it: it has exited, or
\* it waits for a reply of a server that has left handleConnection and reads
\* and writes that connection no more.
ClientLeft ==
    \/ cpc \in { "off", "done", "failed" }
    \/ /\ cpc \in { "hello", "awaitNext", "awaitOffer", "awaitRequest", "awaitDeletion" }
       /\ s2c = << >>

\* runServer: handleConnection has returned, normally or through its
\* recover, and listener.Accept() returns the next connection.  Nothing of
\* the server process is set up anew; a zync client behind the connection is
\* a fresh process.
ServerAccept ==
    /\ spc \in { "ended", "aborted" } /\ ClientLeft
    /\ sess.n < MaxSessions
    /\ \E k \in { "zync", "any" } :
          /\ sess' = [n |-> sess.n + 1, kind |-> k, left |-> SendsOf(k), prev |-> spc]
          /\ cpc' = ClientAt(k)
    /\ spc' = "hello"
    /\ ctodo' = << >>
    /\ myNext' = NoFile /\ myAny' = FALSE /\ svrNext' = NoFile /\ svrAny' = FALSE
    /\ cw' = WalkerNone
    /\ cpend' = [fi |-> NoFile, overwrite |-> FALSE]
    /\ c2s' = << >> /\ s2c' = << >> /\ cclosed' = FALSE
    /\ handled' = << >> /\ wire' = {}
    /\ cfs0' = cfs /\ sfs0' = sfs
    /\ UNCHANGED << cfs, sfs, optionVars, sw, lastSentFilePath, spend, out, mergeVars, codec >>

\* An arbitrary client writes one message.
AnyClientSend ==
    /\ sess.kind = "any" /\ sess.left > 0 /\ ~cclosed
    /\ spc \in { "hello", "loop", "recvFile" } /\ c2s = << >>
    /\ \E m \in AnyClientMessages : c2s' = << m >>
    /\ sess' = [sess EXCEPT !.left = @ - 1]
    /\ UNCHANGED << cfs, sfs, beforeVars, optionVars, clientVars, cw, serverVars,
                    s2c, cclosed, wire, out, mergeVars, codec >>

\* An arbitrary client closes the connection.
AnyClientClose ==
    /\ sess.kind = "any" /\ ~cclosed
    /\ cclosed' = TRUE
    /\ UNCHANGED << cfs, sfs, beforeVars, envVars, optionVars, clientVars, cw, serverVars,
                    c2s, s2c, wire, out, mergeVars >>

\* An arbitrary server writes its next messages.
AnyServerSend ==
    /\ sess.kind = "peer" /\ sess.left > 0
    /\ cpc \notin { "done", "failed" } /\ s2c = << >>
    /\ \E ms \in AnyServerMessages : s2c' = ms
    /\ sess' = [sess EXCEPT !.left = @ - 1]
    /\ UNCHANGED << cfs, sfs, beforeVars, optionVars, clientVars, cw, serverVars,
                    c2s, cclosed, wire, out, mergeVars, codec >>

SessNext == Next \/ ServerAccept \/ AnyClientSend \/ AnyClientClose \/ AnyServerSend

SpecSessions == SessInit /\ [][SessNext]_vars

\* The same runs under the scheduling the programs rely on: a goroutine that
\* can run does run and what was written to a connection arrives (Next), an
\* arbitrary client hangs up in the end (AnyClientClose), and while the
\* server waits in listener.Accept() a next client connects (ServerAccept).
\* They start from a server that holds a file, without --restrict and
\* --Restrict.
FairInit ==
    /\ SessInit
    /\ sfs = SyncTree("file", FALSE, 1, 1, "s")
    /\ ~restrict /\ ~restrictAll

SpecSessionsFair ==
    /\ FairInit /\ [][SessNext]_vars
    /\ WF_vars(Next) /\ WF_vars(AnyClientClose) /\ WF_vars(ServerAccept)

-----------------------------------------------------------------------------
(* Claims about the sync loop and the enumerator on their own *)

PathsOf(s) == { s[i].path : i \in 1..Len(s) }
OccurrencesIn(s, p) == Cardinality({ i \in 1..Len(s) : s[i].path = p })

\* C1: when the sync loop has run over two strictly ascending sequences L0
\* (local) and R0 (remote), it has handled every path of L0 and R0 exactly
\* once: as MISSING iff the path occurs only in R0, as NEW iff it occurs only
\* in L0, and as a same-path comparison iff it occurs in both.
C1_MergeWalkCoverage ==
    cpc = "done" =>
        /\ PathsOf(handled) = PathsOf(L0) \cup PathsOf(R0)
        /\ \A p \in PathsOf(L0) \cup PathsOf(R0) : OccurrencesIn(handled, p) = 1
        /\ \A i \in 1..Len(handled) :
              /\ handled[i].cat = "MISSING" <=>
                    handled[i].path \in PathsOf(R0) \ PathsOf(L0)
              /\ handled[i].cat = "NEW" <=>
                    handled[i].path \in PathsOf(L0) \ PathsOf(R0)
              /\ handled[i].cat = "SAME" <=>
                    handled[i].path \in PathsOf(L0) \cap PathsOf(R0)

\* A finished merge-walk that met all three categories.
C1_Witness ==
    /\ cpc = "done" /\ L0 # << >> /\ R0 # << >>
    /\ \E i, j, k \in 1..Len(handled) :
          handled[i].cat = "MISSING" /\ handled[j].cat = "NEW" /\ handled[k].cat = "SAME"

\* C2: the paths one enumeration has handed out so far are strictly ascending
\* under the byte-wise order of the full path strings.
C2_EnumerationAscending ==
    \A i, j \in 1..Len(out) : i < j => PathLess(out[i].path, out[j].path)

\* C3: one enumeration hands out no path twice, hands out a directory before
\* anything beneath it, describes every entry as the tree holds it, and when
\* the channel is closed it has handed out every file and directory under
\* the root exactly once.
C3_EnumerationComplete ==
    /\ \A i, j \in 1..Len(out) : i < j => out[i].path # out[j].path
    /\ \A j \in 1..Len(out) :
          /\ Exists(cfs, out[j].path) /\ out[j] = fileInfo(cfs, out[j].path)
          /\ \A d \in DOMAIN cfs :
                (cfs[d].isDir /\ IsUnder(out[j].path, d)) =>
                    \E i \in 1..(j - 1) : out[i].path = d
    /\ (cw.closed /\ ~cw.has) =>
          \A p \in DOMAIN cfs : OccurrencesIn(out, p) = 1

\* A closed enumeration of a tree with a file two directories deep.
C3_Witness ==
    /\ cpc = "drained"
    /\ \E j \in 1..Len(out) :
          /\ ~out[j].isDir /\ Parent(Parent(out[j].path)) # Dot
          /\ Parent(out[j].path) # Dot

-----------------------------------------------------------------------------
(* Claims about one session of the client against the server *)

DefaultClient == keepWhose = "" /\ ~autoDelete
Unrestricted == ~restrict /\ ~restrictAll

\* The client has ended without an error ("Complete, disconnecting.", exit
\* status 0) and the server has dealt with everything the client sent.
RunOver == cpc = "done" /\ c2s = << >> /\ spc \in { "ended", "aborted" }

SameEntry(e, f) ==
    e.isDir = f.isDir /\ (~e.isDir => e.size = f.size /\ e.mtime = f.mtime /\ e.data = f.data)

\* The tree holds at fi's path a file with fi's size and mod_time and the
\* content of the given side.
HoldsVersion(fs, fi, data) ==
    /\ Exists(fs, fi.path) /\ ~fs[fi.path].isDir
    /\ fs[fi.path].size = fi.size /\ fs[fi.path].mtime = fi.modTime
    /\ fs[fi.path].data = data

\* Iteration i compared two files that differ in size or mod_time.
SameFiles(i) ==
    /\ handled[i].cat = "SAME"
    /\ ~handled[i].mine.isDir /\ ~handled[i].theirs.isDir
    /\ ~(handled[i].mine.size = handled[i].theirs.size
         /\ handled[i].mine.modTime = handled[i].theirs.modTime)

\* Something the client sent about the path is still on its way to, or being
\* received by, the server.
InFlight(p) ==
    \/ \E k \in 1..Len(c2s) : c2s[k].type \in { "FileOffer", "File" } /\ c2s[k].fi.path = p
    \/ spc = "recvFile" /\ spend.path = p

\* The exchange that iteration i started is over on both sides, and neither
\* side has failed in it.
Settled(i) ==
    /\ i < Len(handled) \/ cpc \in { "run", "done" }
    /\ ~InFlight(handled[i].path)
    /\ spc # "aborted"

\* C4: when a run of the client without --keep and --delete against a server
\* without --restrict and --Restrict has completed without an error on the
\* client, every path that was on exactly one side is on both sides, a file
\* with the content, size and mod_time of its source, and no path of either
\* side has been deleted.
C4_Convergence ==
    (RunOver /\ DefaultClient /\ Unrestricted) =>
        /\ \A p \in DOMAIN cfs0 \ DOMAIN sfs0 :
              /\ Exists(cfs, p) /\ Exists(sfs, p)
              /\ SameEntry(cfs0[p], cfs[p]) /\ SameEntry(cfs0[p], sfs[p])
        /\ \A p \in DOMAIN sfs0 \ DOMAIN cfs0 :
              /\ Exists(cfs, p) /\ Exists(sfs, p)
              /\ SameEntry(sfs0[p], cfs[p]) /\ SameEntry(sfs0[p], sfs[p])
        /\ DOMAIN cfs0 \subseteq DOMAIN cfs
        /\ DOMAIN sfs0 \subseteq DOMAIN sfs

\* The path held a file on both sides before the run, the two differing in
\* size or mod_time.
BothFiles(p) ==
    /\ p \in DOMAIN cfs0 \cap DOMAIN sfs0
    /\ ~cfs0[p].isDir /\ ~sfs0[p].isDir
    /\ ~(cfs0[p].size = sfs0[p].size /\ cfs0[p].mtime = sfs0[p].mtime)

\* What resolve does without --keep with the two differing files of iteration
\* i, and what the two sides hold once the exchange is over; refusing says
\* that the server refuses to overwrite.
NewerWinsAt(i, refusing) ==
    LET h == handled[i]
    IN  /\ h.mine.modTime > h.theirs.modTime =>
              /\ h.sent = "FileOffer"
              /\ Settled(i) =>
                    /\ HoldsVersion(cfs, h.mine, "c")
                    /\ IF refusing THEN HoldsVersion(sfs, h.theirs, "s")
                       ELSE HoldsVersion(sfs, h.mine, "c")
        /\ h.theirs.modTime > h.mine.modTime =>
              /\ h.sent = "FileRequest" /\ h.overwrite
              /\ Settled(i) =>
                    HoldsVersion(cfs, h.theirs, "s") /\ HoldsVersion(sfs, h.theirs, "s")
        /\ h.mine.modTime = h.theirs.modTime =>
              /\ h.act = "warn" /\ h.sent = "none" /\ h.op = "none"
              /\ Settled(i) =>
                    HoldsVersion(cfs, h.mine, "c") /\ HoldsVersion(sfs, h.theirs, "s")

\* What the two sides hold at a path of differing files after a completed
\* run without --keep.
NewerWinsAtEnd(p, refusing) ==
    LET mine == fileInfo(cfs0, p)
        theirs == fileInfo(sfs0, p)
    IN  /\ mine.modTime > theirs.modTime =>
              /\ HoldsVersion(cfs, mine, "c")
              /\ IF refusing THEN HoldsVersion(sfs, theirs, "s")
                 ELSE HoldsVersion(sfs, mine, "c")
        /\ theirs.modTime > mine.modTime =>
              HoldsVersion(cfs, theirs, "s") /\ HoldsVersion(sfs, theirs, "s")
        /\ mine.modTime = theirs.modTime =>
              HoldsVersion(cfs, mine, "c") /\ HoldsVersion(sfs, theirs, "s")

C7_MissingAction ==
    /\ \A i \in 1..Len(handled) : handled[i].cat = "MISSING" =>
          LET h == handled[i]
          IN  IF keepWhose = "mine" /\ autoDelete THEN
                  h.op = "requestFileDeletion" /\ h.sent = "FileDeletionRequest"
              ELSE IF h.theirs.isDir THEN
                  /\ h.op = "mkdir" /\ h.sent = "none"
                  /\ (i = Len(handled) /\ cpc = "run") => IsDirAt(cfs, h.path)
              ELSE
                  /\ h.op = "requestFile" /\ h.sent = "FileRequest" /\ ~h.overwrite
                  /\ (i = Len(handled) /\ cpc = "run") =>
                        HoldsVersion(cfs, h.theirs, "s") \/ ~Exists(sfs, h.path)
    /\ (Len(handled) > 0 /\ handled[Len(handled)].cat = "MISSING") =>
          LET h == handled[Len(handled)]
          IN  /\ cpc = "awaitDeletion" => h.sent = "FileDeletionRequest"
              /\ (cpc = "awaitDeletion" /\ c2s # << >>) =>
                    /\ c2s[Len(c2s)].type = "FileDeletionRequest"
                    /\ c2s[Len(c2s)].path = h.path
              /\ cpc = "awaitRequest" =>
                    /\ ~cpend.overwrite
                    /\ c2s # << >> =>
                          /\ c2s[Len(c2s)].type = "FileRequest"
                          /\ c2s[Len(c2s)].path = h.path

\* The client has just saved a file that only the server announced, in a run
\* that also created a directory for such a path.
C7_Witness ==
    /\ Len(handled) > 0 /\ cpc = "run"
    /\ LET h == handled[Len(handled)]
       IN  /\ h.cat = "MISSING" /\ h.op = "requestFile"
           /\ HoldsVersion(cfs, h.theirs, "s")
           /\ \E j \in 1..Len(handled) : handled[j].op = "mkdir"

\* C8: for a path only the client holds, the client deletes it locally, with
\* everything beneath it and without any message, iff it runs with --keep
\* theirs and --delete; otherwise it offers the path, and sends the file once
\* the server has accepted the offer.
C8_NewAction ==
    /\ \A i \in 1..Len(handled) : handled[i].cat = "NEW" =>
          LET h == handled[i]
          IN  IF keepWhose = "theirs" /\ autoDelete THEN
                  /\ h.op = "deleteLocalFile" /\ h.sent = "none"
                  /\ i = Len(handled) =>
                        \A q \in DOMAIN cfs : q # h.path /\ ~IsUnder(q, h.path)
              ELSE
                  h.op = "offer" /\ h.sent = "FileOffer"
    /\ (spc = "recvFile" /\ s2c = << >> /\ cpc \notin { "awaitOffer", "failed" }) =>
          /\ c2s # << >> /\ Head(c2s).type = "File"
          /\ Head(c2s).fi.path = spend.path

\* The server is receiving a file the client offered as NEW and has sent.
C8_Witness ==
    /\ spc = "recvFile" /\ s2c = << >> /\ cpc = "run"
    /\ Len(handled) > 0 /\ handled[Len(handled)].cat = "NEW"
    /\ handled[Len(handled)].path = spend.path

\* C9: when a run with --keep mine and --delete against a server without
\* --restrict and --Restrict has completed, the server holds no path that the
\* client lacked before the run, and still holds every path that both sides
\* held before the run.
C9_ServerSideDeletion ==
    (RunOver /\ spc = "ended" /\ keepWhose = "mine" /\ autoDelete /\ Unrestricted) =>
        /\ \A p \in DOMAIN sfs : p \in DOMAIN cfs0
        /\ \A p \in DOMAIN cfs0 \cap DOMAIN sfs0 : Exists(sfs, p)

\* The two trees hold the same paths with equal is_dir, size and mod_time.
InSync(a, b) ==
    /\ DOMAIN a = DOMAIN b
    /\ \A p \in DOMAIN a :
          /\ a[p].isDir = b[p].isDir
          /\ ~a[p].isDir => a[p].size = b[p].size /\ a[p].mtime = b[p].mtime

\* C10: a run over two trees that hold the same paths with equal is_dir, size
\* and mod_time transfers no file, creates no directory and deletes nothing,
\* and exchanges only Version, Bool, Command and FileInfo messages; and a
\* file that a run has transferred has the same size and mod_time on both
\* sides.
C10_Idempotence ==
    /\ InSync(cfs0, sfs0) =>
          /\ cfs = cfs0 /\ sfs = sfs0
          /\ wire \subseteq { "Version", "Bool", "Command", "FileInfo" }
          /\ \A i \in 1..Len(handled) :
                handled[i].cat = "SAME" /\ handled[i].op = "none"
    /\ \A p \in DOMAIN cfs \cap DOMAIN sfs :
          (~cfs[p].isDir /\ ~sfs[p].isDir /\ cfs[p].data = sfs[p].data) =>
              cfs[p].size = sfs[p].size /\ cfs[p].mtime = sfs[p].mtime

\* A finished run over two trees in sync that compared a file.
C10_Witness ==
    /\ RunOver /\ spc = "ended" /\ InSync(cfs0, sfs0)
    /\ \E i \in 1..Len(handled) : ~handled[i].mine.isDir

-----------------------------------------------------------------------------
(* The wire codec of protocol.go, byte by byte.  A connection is the sequence *)
(* of the bytes still to be read; integers are big-endian two's complement.   *)

MaxStringLength == 1024
MaxTimeLength == 16
MessageTerminator == 20741

MsgBool == 0
MsgCommand == 1
MsgFile == 2
MsgFileInfo == 3
MsgFileOffer == 4
MsgFileRequest == 5
MsgInt32 == 6
MsgInt64 == 7
MsgOfferFile == 8
MsgString == 9
MsgTime == 10
MsgUint32 == 11
MsgVersion == 12

\* binary.Write of an int32: four bytes, the sign in the top bit.
writeInt32(val) ==
    LET m == IF val < 0 THEN (val + 2147483647) + 1 ELSE val
    IN  << (IF val < 0 THEN 128 ELSE 0) + (m \div 16777216), (m \div 65536) % 256,
           (m \div 256) % 256, m % 256 >>

\* binary.Read into an int32.
\* A faulty variant that takes the top bit for a value bit (and saturates),
\* and the conversion.
readInt32MutUnsigned(b) ==
    IF b[1] >= 128 THEN 2147483647
    ELSE (b[1] * 16777216) + (b[2] * 65536) + (b[3] * 256) + b[4]

readInt32(b) ==
    LET m == ((b[1] % 128) * 16777216) + (b[2] * 65536) + (b[3] * 256) + b[4]
    IN  IF b[1] >= 128 THEN (m - 2147483647) - 1 ELSE m

\* binary.Write of a uint32; a value is its top bit and its low 31 bits.
writeUint32(top, low) ==
    << (IF top THEN 128 ELSE 0) + (low \div 16777216), (low \div 65536) % 256,
       (low \div 256) % 256, low % 256 >>

\* binary.Write of an int64; the values written fit 32 bits and are
\* sign-extended.
writeInt64(val) ==
    (IF val < 0 THEN << 255, 255, 255, 255 >> ELSE << 0, 0, 0, 0 >>) \o writeInt32(val)

\* A message as a Go value: its dynamic type and, by type, a bool, a number
\* (for a uint32 with its top bit apart), a string or time, or a FileInfo.
\* The type "File" stands for what sendFile writes, "nil" for no message.
NoInfo == [path |-> << >>, isDir |-> FALSE, mode |-> 0, modeTop |-> FALSE,
           modTime |-> 0, size |-> 0]
Zero(type) == [type |-> type, b |-> FALSE, n |-> 0, top |-> FALSE, s |-> << >>,
               fi |-> NoInfo]
Nil == Zero("nil")
VBool(b) == [Zero("bool") EXCEPT !.b = b]
VCommand(c) == [Zero("Command") EXCEPT !.n = c]
VInt32(n) == [Zero("int32") EXCEPT !.n = n]
VInt64(n) == [Zero("int64") EXCEPT !.n = n]
VString(str) == [Zero("string") EXCEPT !.s = str]
VTime(t) == [Zero("Time") EXCEPT !.n = t]
VUint32(top, low) == [Zero("uint32") EXCEPT !.top = top, !.n = low]
VVersion(v) == [Zero("Version") EXCEPT !.n = v]
VFileInfo(fi) == [Zero("FileInfo") EXCEPT !.fi = fi]
VFileOffer(fi) == [Zero("FileOffer") EXCEPT !.fi = fi]
VFileRequest(path) == [Zero("FileRequest") EXCEPT !.s = path]
VFile(fi, content) == [Zero("File") EXCEPT !.fi = fi, !.s = content]

writeMessageType(mt) == writeInt32(mt)
writeMessageTerminator == writeInt32(MessageTerminator)

\* time.Time.MarshalBinary: a version byte, the seconds, the nanoseconds
\* and the zone offset (-1: UTC).
MarshalBinary(t) == << 1 >> \o writeInt64(t) \o writeInt32(0) \o << 255, 255 >>

RECURSIVE send(_)

sendBool(b) == writeMessageType(MsgBool) \o << IF b THEN 1 ELSE 0 >>
sendCommand(cmd) == writeMessageType(MsgCommand) \o writeInt32(cmd)
sendInt32(val) == writeMessageType(MsgInt32) \o writeInt32(val)
sendInt64(val) == writeMessageType(MsgInt64) \o writeInt64(val)
sendString(str) == writeMessageType(MsgString) \o writeInt32(Len(str)) \o str
sendTime(t) ==
    writeMessageType(MsgTime) \o writeInt32(Len(MarshalBinary(t))) \o MarshalBinary(t)
sendUint32(top, low) == writeMessageType(MsgUint32) \o writeUint32(top, low)
sendVersion(v) == writeMessageType(MsgVersion) \o writeInt32(v)
sendFileInfo(fi) ==
    writeMessageType(MsgFileInfo)
        \o send(VString(fi.path)) \o send(VBool(fi.isDir))
        \o send(VUint32(fi.modeTop, fi.mode)) \o send(VTime(fi.modTime))
        \o send(VInt64(fi.size))
sendFileOffer(fi) == writeMessageType(MsgFileOffer) \o send(VFileInfo(fi))
sendFileRequest(path) == writeMessageType(MsgFileRequest) \o send(VString(path))

\* send: the encoding by the value's type, then the terminator.  A value of
\* any other type is an error and nothing is written.
send(msg) ==
    CASE msg.type = "bool" -> sendBool(msg.b) \o writeMessageTerminator
      [] msg.type = "Command" -> sendCommand(msg.n) \o writeMessageTerminator
      [] msg.type = "FileInfo" -> sendFileInfo(msg.fi) \o writeMessageTerminator
      [] msg.type = "FileOffer" -> sendFileOffer(msg.fi) \o writeMessageTerminator
      [] msg.type = "FileRequest" -> sendFileRequest(msg.s) \o writeMessageTerminator
      [] msg.type = "int32" -> sendInt32(msg.n) \o writeMessageTerminator
      [] msg.type = "int64" -> sendInt64(msg.n) \o writeMessageTerminator
      [] msg.type = "string" -> sendString(msg.s) \o writeMessageTerminator
      [] msg.type = "Time" -> sendTime(msg.n) \o writeMessageTerminator
      [] msg.type = "uint32" -> sendUint32(msg.top, msg.n) \o writeMessageTerminator
      [] msg.type = "Version" -> sendVersion(msg.n) \o writeMessageTerminator
      [] OTHER -> << >>

\* sendFile, for a file whose content has the size the FileInfo states: the
\* File tag, the FileInfo as a message, the content and the terminator.
sendFileBytes(fi, content) ==
    writeMessageType(MsgFile) \o send(VFileInfo(fi)) \o content \o writeMessageTerminator

\* What a read returns: the error (nil or not), the value, and the bytes that
\* are left on the connection; panic marks a run-time panic inside the read.
\* eof marks the error io.EOF, which io.ReadFull and binary.Read return when
\* the stream ends before the first byte they are to read; when it ends
\* after some of the bytes, the error is io.ErrUnexpectedEOF.
Res(err, msg, rest) ==
    [err |-> err, eof |-> FALSE, panic |-> FALSE, msg |-> msg, rest |-> rest]
Num(err, val, rest) == [err |-> err, eof |-> FALSE, val |-> val, rest |-> rest]

Drop(conn, k) == SubSeq(conn, k + 1, Len(conn))
Zeros(k) == [i \in 1..k |-> 0]

\* io.ReadFull into a buffer of k bytes: a short read is an error and has
\* consumed what there was.
recvByte(conn) ==
    IF conn = << >> THEN [Num(TRUE, 0, << >>) EXCEPT !.eof = TRUE]
    ELSE Num(FALSE, conn[1], Tail(conn))
recvInt32(conn) ==
    IF Len(conn) < 4 THEN [Num(TRUE, 0, << >>) EXCEPT !.eof = (conn = << >>)]
    ELSE Num(FALSE, readInt32(SubSeq(conn, 1, 4)), Drop(conn, 4))

\* binary.Read into an int64: top is set for a value beyond the 32 bits
\* that are modelled.
readInt64(b) ==
    LET hi == SubSeq(b, 1, 4)
        lo == SubSeq(b, 5, 8)
        fits == \/ hi = << 0, 0, 0, 0 >> /\ lo[1] < 128
                \/ hi = << 255, 255, 255, 255 >> /\ lo[1] >= 128
    IN  [top |-> ~fits, n |-> IF fits THEN readInt32(lo) ELSE 0]

recvMessageType(conn) == recvInt32(conn)

\* A faulty variant that reads the terminator and does not compare it, and
\* the check.
checkMessageTerminatorMutAny(conn) ==
    LET term == recvInt32(conn)
    IN  [Num(term.err, term.val, term.rest) EXCEPT !.eof = term.eof]

checkMessageTerminator(conn) ==
    LET term == recvInt32(conn)
    IN  [Num(term.err \/ term.val # MessageTerminator, term.val, term.rest)
            EXCEPT !.eof = term.eof]

recvBool(conn) ==
    LET bt == recvByte(conn)
    IN  IF bt.err THEN [Res(TRUE, VBool(FALSE), bt.rest) EXCEPT !.eof = bt.eof]
        ELSE Res(FALSE, VBool(bt.val # 0), bt.rest)

recvCommand(conn) ==
    LET c == recvInt32(conn)
    IN  [Res(c.err, VCommand(c.val), c.rest) EXCEPT !.eof = c.eof]

recvVersion(conn) ==
    LET ver == recvInt32(conn)
    IN  [Res(ver.err, VVersion(ver.val), ver.rest) EXCEPT !.eof = ver.eof]

recvInt32Msg(conn) ==
    LET val == recvInt32(conn)
    IN  [Res(val.err, VInt32(val.val), val.rest) EXCEPT !.eof = val.eof]

recvInt64(conn) ==
    IF Len(conn) < 8 THEN [Res(TRUE, VInt64(0), << >>) EXCEPT !.eof = (conn = << >>)]
    ELSE Res(FALSE,
             [VInt64(readInt64(SubSeq(conn, 1, 8)).n)
                 EXCEPT !.top = readInt64(SubSeq(conn, 1, 8)).top],
             Drop(conn, 8))

recvUint32(conn) ==
    IF Len(conn) < 4
    THEN [Res(TRUE, VUint32(FALSE, 0), << >>) EXCEPT !.eof = (conn = << >>)]
    ELSE Res(FALSE,
             VUint32(conn[1] >= 128,
                     ((conn[1] % 128) * 16777216) + (conn[2] * 65536)
                         + (conn[3] * 256) + conn[4]),
             Drop(conn, 4))

\* recvString: the length, checked against MaxStringLength only, and the
\* bytes; make([]byte, length) panics on a negative length.
recvString(conn) ==
    LET length == recvInt32(conn)
    IN  IF length.err
        THEN [Res(TRUE, VString(<< >>), length.rest) EXCEPT !.eof = length.eof]
        ELSE IF length.val > MaxStringLength THEN Res(TRUE, VString(<< >>), length.rest)
        ELSE IF length.val < 0 THEN
            [Res(TRUE, Nil, length.rest) EXCEPT !.panic = TRUE]
        ELSE IF Len(length.rest) < length.val THEN
            [Res(TRUE, VString(length.rest \o Zeros(length.val - Len(length.rest))), << >>)
                EXCEPT !.eof = (length.rest = << >>)]
        ELSE Res(FALSE, VString(SubSeq(length.rest, 1, length.val)),
                 Drop(length.rest, length.val))

\* time.Time.UnmarshalBinary succeeds on 15 bytes that start with version 1.
UnmarshalBinaryOk(buf) == Len(buf) = 15 /\ buf[1] = 1

recvTime(conn) ==
    LET length == recvInt32(conn)
    IN  IF length.err THEN [Res(TRUE, VTime(0), length.rest) EXCEPT !.eof = length.eof]
        ELSE IF length.val > MaxTimeLength THEN Res(TRUE, VTime(0), length.rest)
        ELSE IF length.val < 0 THEN
            [Res(TRUE, Nil, length.rest) EXCEPT !.panic = TRUE]
        ELSE IF Len(length.rest) < length.val
        THEN [Res(TRUE, VTime(0), << >>) EXCEPT !.eof = (length.rest = << >>)]
        ELSE LET buf == SubSeq(length.rest, 1, length.val)
             IN  IF ~UnmarshalBinaryOk(buf)
                 THEN Res(TRUE, VTime(0), Drop(length.rest, length.val))
                 ELSE Res(FALSE,
                          [VTime(readInt64(SubSeq(buf, 2, 9)).n)
                              EXCEPT !.top = readInt64(SubSeq(buf, 2, 9)).top],
                          Drop(length.rest, length.val))

RECURSIVE recv(_)
RECURSIVE readAndCheck(_, _)
RECURSIVE read(_, _)

\* expectBool, expectCommand, expectFileInfo, expectInt64, expectString,
\* expectTime, expectUint32, expectVersion: recv, then the type assertion.
\* On either failure the result is the zero value of the type.
expectType(conn, type) ==
    LET r == recv(conn)
    IN  IF r.err THEN [r EXCEPT !.msg = Zero(type)]
        ELSE IF r.msg.type # type THEN [r EXCEPT !.err = TRUE, !.msg = Zero(type)]
        ELSE r

expectBool(conn) == expectType(conn, "bool")
expectCommand(conn) == expectType(conn, "Command")
expectFileInfo(conn) == expectType(conn, "FileInfo")
expectInt64(conn) == expectType(conn, "int64")
expectString(conn) == expectType(conn, "string")
expectTime(conn) == expectType(conn, "Time")
expectUint32(conn) == expectType(conn, "uint32")
expectVersion(conn) == expectType(conn, "Version")

\* recvFileInfo: the five fields as messages; the FileInfo is filled in only
\* when all five were read.
recvFileInfo(conn) ==
    LET path == expectString(conn)
        isDir == expectBool(path.rest)
        mode == expectUint32(isDir.rest)
        modTime == expectTime(mode.rest)
        size == expectInt64(modTime.rest)
    IN  IF path.err THEN [path EXCEPT !.msg = VFileInfo(NoInfo)]
        ELSE IF isDir.err THEN [isDir EXCEPT !.msg = VFileInfo(NoInfo)]
        ELSE IF mode.err THEN [mode EXCEPT !.msg = VFileInfo(NoInfo)]
        ELSE IF modTime.err THEN [modTime EXCEPT !.msg = VFileInfo(NoInfo)]
        ELSE IF size.err THEN [size EXCEPT !.msg = VFileInfo(NoInfo)]
        ELSE Res(FALSE,
                 VFileInfo([path |-> path.msg.s, isDir |-> isDir.msg.b,
                            mode |-> mode.msg.n, modeTop |-> mode.msg.top,
                            modTime |-> modTime.msg.n, size |-> size.msg.n]),
                 size.rest)

recvFileOffer(conn) ==
    LET info == expectFileInfo(conn)
    IN  IF info.err THEN [info EXCEPT !.msg = VFileOffer(NoInfo)]
        ELSE [info EXCEPT !.msg = VFileOffer(info.msg.fi)]

recvFileRequest(conn) ==
    LET path == expectString(conn)
    IN  IF path.err THEN [path EXCEPT !.msg = VFileRequest(<< >>)]
        ELSE [path EXCEPT !.msg = VFileRequest(path.msg.s)]

\* read: the body by message type; any other type is an error.
read(conn, msgType) ==
    CASE msgType = MsgBool -> recvBool(conn)
      [] msgType = MsgCommand -> recvCommand(conn)
      [] msgType = MsgFileInfo -> recvFileInfo(conn)
      [] msgType = MsgFileOffer -> recvFileOffer(conn)
      [] msgType = MsgFileRequest -> recvFileRequest(conn)
      [] msgType = MsgInt32 -> recvInt32Msg(conn)
      [] msgType = MsgInt64 -> recvInt64(conn)
      [] msgType = MsgString -> recvString(conn)
      [] msgType = MsgTime -> recvTime(conn)
      [] msgType = MsgUint32 -> recvUint32(conn)
      [] msgType = MsgVersion -> recvVersion(conn)
      [] OTHER -> Res(TRUE, Nil, conn)

\* The body has been read: the terminator decides the error, the value read
\* is returned either way.
readAndCheck(conn, msgType) ==
    LET r == read(conn, msgType)
    IN  IF r.err THEN r
        ELSE [r EXCEPT !.err = checkMessageTerminator(r.rest).err,
                       !.eof = checkMessageTerminator(r.rest).eof,
                       !.rest = checkMessageTerminator(r.rest).rest]

\* recv: the type, the body, the terminator.
recv(conn) ==
    LET msgType == recvMessageType(conn)
    IN  IF msgType.err THEN [Res(TRUE, Nil, msgType.rest) EXCEPT !.eof = msgType.eof]
        ELSE readAndCheck(msgType.rest, msgType.val)

\* expect: as recv, but a message of another type than mt is an error and
\* nothing of it is read.
\* A faulty variant that does not compare the type, and expect.
expectMutAnyType(conn, mt) == recv(conn)

expect(conn, mt) ==
    LET msgType == recvMessageType(conn)
    IN  IF msgType.err THEN [Res(TRUE, Nil, msgType.rest) EXCEPT !.eof = msgType.eof]
        ELSE IF msgType.val # mt THEN Res(TRUE, Nil, msgType.rest)
        ELSE readAndCheck(msgType.rest, msgType.val)

\* The messages written to a connection that is then read: values of every
\* type, a FileInfo for a directory (mode with the directory bit, the top one)
\* and for files, and what sendFile writes for a file.
CodecInfos ==
    { [path |-> p, isDir |-> TRUE, mode |-> 448, modeTop |-> TRUE, modTime |-> t,
       size |-> 0] : p \in { PathA }, t \in { 0, 2 } }
    \cup { [path |-> p, isDir |-> FALSE, mode |-> 420, modeTop |-> FALSE, modTime |-> t,
            size |-> 1] : p \in { PathA, PathAA }, t \in { 0, 2 } }

CodecValues ==
    { VBool(b) : b \in BOOLEAN }
    \cup { VCommand(c) : c \in { CmdRequestNextFileInfo, CmdRequestNextFileInfo + 1 } }
    \cup { VInt32(n) : n \in { -1, 0, MessageTerminator } }
    \cup { VInt64(n) : n \in { -1, 0, 1 } }
    \cup { VString(str) : str \in { << >>, PathA, PathAA } }
    \cup { VTime(t) : t \in { 0, 2 } }
    \cup { VUint32(FALSE, 420), VUint32(TRUE, 448) }
    \cup { VVersion(v) : v \in { ProtoVersion, ProtoVersion + 1 } }
    \cup { VFileInfo(fi) : fi \in CodecInfos }
    \cup { VFileOffer(fi) : fi \in CodecInfos }
    \cup { VFileRequest(path) : path \in { PathA, PathAA } }
    \cup { VFile(fi, << 120 >>) : fi \in { fi \in CodecInfos : ~fi.isDir } }

\* The message type a value is written with.
TagOf(type) ==
    CASE type = "bool" -> MsgBool
      [] type = "Command" -> MsgCommand
      [] type = "File" -> MsgFile
      [] type = "FileInfo" -> MsgFileInfo
      [] type = "FileOffer" -> MsgFileOffer
      [] type = "FileRequest" -> MsgFileRequest
      [] type = "int32" -> MsgInt32
      [] type = "int64" -> MsgInt64
      [] type = "string" -> MsgString
      [] type = "Time" -> MsgTime
      [] type = "uint32" -> MsgUint32
      [] type = "Version" -> MsgVersion

MessageTypes == MsgBool..MsgVersion
ExpectTypes ==
    { "bool", "Command", "FileInfo", "int64", "string", "Time", "uint32", "Version" }

\* A FileDeletionRequest on the wire: message type 6, the path as a String
\* message, the terminator.
sendFileDeletionRequest(path) ==
    writeInt32(6) \o send(VString(path)) \o writeMessageTerminator

\* The bytes a value is written as.
Written(v) == IF v.type = "File" THEN sendFileBytes(v.fi, v.s) ELSE send(v)

\* The messages a message holds.
Subs(v) ==
    CASE v.type = "FileInfo" ->
            << VString(v.fi.path), VBool(v.fi.isDir), VUint32(v.fi.modeTop, v.fi.mode),
               VTime(v.fi.modTime), VInt64(v.fi.size) >>
      [] v.type \in { "FileOffer", "File" } -> << VFileInfo(v.fi) >>
      [] v.type = "FileRequest" -> << VString(v.s) >>
      [] OTHER -> << >>

\* Where in Written(v) the i-th message it holds starts (after so many bytes),
\* and where the terminators of v and of all messages in it end.
RECURSIVE SubStart(_, _)
SubStart(subs, i) ==
    IF i = 1 THEN 4 ELSE SubStart(subs, i - 1) + Len(send(subs[i - 1]))

RECURSIVE TermEnds(_)
TermEnds(v) ==
    { Len(Written(v)) }
    \cup UNION { { SubStart(Subs(v), i) + e : e \in TermEnds(Subs(v)[i]) } :
                 i \in 1..Len(Subs(v)) }

\* The k-th byte of the 32-bit word that ends at byte end, changed.
Corrupt(bytes, end, k) == [bytes EXCEPT ![(end - 4) + k] = (@ + 1) % 256]

\* A message has been written, possibly with one terminator damaged on the
\* way, and more bytes may follow it.
CodecInit ==
    /\ \E v \in CodecValues, more \in { << >>, << 7 >> } :
         \E bad \in { 0 } \cup TermEnds(v), k \in { 1, 4 } :
            /\ bad = 0 => k = 1
            /\ codec = [at |-> "written", v |-> v, bad |-> bad, more |-> more,
                        conn |-> (IF bad = 0 THEN Written(v)
                                  ELSE Corrupt(Written(v), bad, k)) \o more,
                        how |-> "", mt |-> 0, want |-> "", res |-> Res(FALSE, Nil, << >>)]
    /\ sess = OneSession
    /\ cfs = EmptyFs /\ cfs0 = EmptyFs /\ cw = WalkerNone /\ out = << >>
    /\ IdleClient /\ IdleServer /\ IdleWire /\ IdleMerge

CodecDone(how, mt, want, res) ==
    /\ codec.at = "written"
    /\ codec' = [codec EXCEPT !.at = "read", !.how = how, !.mt = mt, !.want = want,
                              !.res = res]
    /\ UNCHANGED << cfs, sfs, beforeVars, optionVars, clientVars, cw, serverVars,
                    wireVars, out, mergeVars, sess >>

\* msg, msgType, err := recv(conn)
CodecRecv == CodecDone("recv", 0, "", recv(codec.conn))

\* msg, err := expect(conn, mt)
CodecExpect == \E mt \in MessageTypes : CodecDone("expect", mt, "", expect(codec.conn, mt))

\* expectBool(conn) and the other readers of one type
CodecExpectType ==
    \E type \in ExpectTypes :
        CodecDone("expectType", 0, type, expectType(codec.conn, type))

CodecNext == CodecRecv \/ CodecExpect \/ CodecExpectType

SpecCodec == CodecInit /\ [][CodecNext]_vars

\* A String or Time message as any peer may write it: the type, a length
\* word of its choice, some bytes and a terminator.
DeclaredLengths ==
    { -2147483647, -1, 0, 1, MaxTimeLength, MaxTimeLength + 1, MaxStringLength + 1,
      2147483647 }

LengthInit ==
    /\ \E mt \in { MsgString, MsgTime }, declared \in DeclaredLengths,
          body \in { << >>, << 97 >>, MarshalBinary(2) } :
            codec = [at |-> "written", tag |-> mt, declared |-> declared, body |-> body,
                     conn |-> writeMessageType(mt) \o writeInt32(declared) \o body
                                  \o writeMessageTerminator,
                     how |-> "", mt |-> 0, want |-> "", res |-> Res(FALSE, Nil, << >>)]
    /\ sess = OneSession
    /\ cfs = EmptyFs /\ cfs0 = EmptyFs /\ cw = WalkerNone /\ out = << >>
    /\ IdleClient /\ IdleServer /\ IdleWire /\ IdleMerge

SpecLengths == LengthInit /\ [][CodecNext]_vars

\* A message of the command loop of which only the first cut bytes arrive
\* before the client's end of the connection closes.
LoopValues ==
    { VCommand(CmdRequestNextFileInfo), VFileRequest(PathA) }
    \cup { VFileOffer(fi) : fi \in CodecInfos }

CutInit ==
    /\ \E v \in LoopValues : \E cut \in 0..Len(Written(v)) :
            codec = [at |-> "written", v |-> v, cut |-> cut,
                     conn |-> SubSeq(Written(v), 1, cut),
                     res |-> Res(FALSE, Nil, << >>)]
    /\ sess = OneSession
    /\ cfs = EmptyFs /\ cfs0 = EmptyFs /\ cw = WalkerNone /\ out = << >>
    /\ IdleClient /\ IdleServer /\ IdleWire /\ IdleMerge

\* handleConnection, the head of its loop: recv; on io.EOF the handler
\* returns; any other error goes to checkError, which panics; a message is
\* dispatched.
handleConnectionRecv(r) ==
    IF r.err /\ r.eof /\ ~r.panic THEN "returned"
    ELSE IF r.err THEN "panicked"
    ELSE "dispatched"

HandleConnectionLoop ==
    /\ codec.at = "written"
    /\ codec' = [codec EXCEPT !.at = handleConnectionRecv(recv(codec.conn)),
                              !.res = recv(codec.conn)]
    /\ UNCHANGED << cfs, sfs, beforeVars, sess, optionVars, clientVars, cw, serverVars,
                    wireVars, out, mergeVars >>

SpecCut == CutInit /\ [][HandleConnectionLoop]_vars

-----------------------------------------------------------------------------
(* Claims about the server's sessions *)

\* The server is inside the command loop of a session.
InLoop(pc) == pc \in { "loop", "recvFile" }

\* The server reads the first message of a session.
ReadsHello == spc = "hello" /\ c2s # << >> /\ c2s' = Tail(c2s) /\ sess' = sess

C11_Step ==
    /\ (ReadsHello /\ Head(c2s).type = "Version") =>
          IF Head(c2s).n = ProtoVersion
          THEN s2c' = Append(s2c, MBool(TRUE)) /\ spc' = "loop"
          ELSE /\ s2c' = Append(s2c, MBool(FALSE)) /\ spc' = "ended"
               /\ sw' = sw /\ sfs' = sfs /\ lastSentFilePath' = lastSentFilePath
    /\ InLoop(spc') =>
          \/ InLoop(spc)
          \/ ReadsHello /\ Head(c2s) = MVersion(ProtoVersion)
    /\ ~InLoop(spc) =>
          /\ sfs' = sfs /\ lastSentFilePath' = lastSentFilePath
          /\ (sess' = sess /\ sess.kind # "peer" /\ ~ReadsHello) => Len(s2c') <= Len(s2c)
    /\ (cpc = "hello" /\ cpc' # cpc /\ Head(s2c) = MBool(FALSE)) =>
          cpc' = "failed" /\ c2s' = c2s
    /\ (cpc = "failed" /\ sess' = sess) => c2s' = c2s \/ c2s' = Tail(c2s)

\* C11: the server answers a Version message with Bool(true) and enters its
\* command loop iff the version is ProtoVersion; any other version gets
\* Bool(false), and the session ends with no enumeration started and the
\* tree and lastSentFilePath untouched.  The command loop is entered only
\* through that answer, and outside of it the server changes nothing and
\* answers nothing.  A client that reads Bool(false) as the answer to its
\* Version exits with status 1 and writes nothing more.
C11_HandshakeGate == [][C11_Step]_vars

\* The server has refused a version and the session has ended.
C11_Witness ==
    /\ sess.kind = "any" /\ spc = "ended" /\ ~cclosed
    /\ s2c = << MBool(FALSE) >> /\ sess.left = MaxAnySends - 1

\* A zync client has read Bool(false) from its peer and has exited.
ClientRefused ==
    /\ sess.kind = "peer" /\ cpc = "failed"
    /\ c2s = << MVersion(ProtoVersion) >> /\ sess.left = MaxAnySends - 1

\* The FileInfo messages among the messages of a log, and the path of the
\* last of them as a sequence of at most one path.
InfosIn(log) == { i \in 1..Len(log) : log[i].type = "FileInfo" }
LastInfoIn(log) ==
    IF InfosIn(log) = {} THEN << >>
    ELSE << log[CHOOSE i \in InfosIn(log) : \A j \in InfosIn(log) : j <= i].fi.path >>

\* The path the server has most recently announced on this connection: an
\* arbitrary client reads nothing, so s2c holds all the server has written;
\* the zync client holds the last announcement in svrNext.
Announced ==
    IF sess.kind = "any" THEN LastInfoIn(s2c)
    ELSE IF svrAny THEN << svrNext.path >> ELSE << >>

\* The server takes a FileDeletionRequest off the connection.
ReadsDeletionRequest ==
    /\ spc = "loop" /\ c2s # << >> /\ c2s' = Tail(c2s) /\ sess' = sess
    /\ Head(c2s).type = "FileDeletionRequest"

C12_Step ==
    ReadsDeletionRequest =>
        IF ~restrict /\ ~restrictAll /\ Announced = << Head(c2s).path >>
        THEN /\ s2c' = Append(s2c, MBool(TRUE))
             /\ sfs' = RemoveAll(sfs, InRoot(Head(c2s).path))
        ELSE /\ s2c' = Append(s2c, MBool(FALSE))
             /\ sfs' = sfs

\* C12: the server answers a FileDeletionRequest with Bool(true) and removes
\* the path with everything beneath it iff neither restrict nor restrictAll
\* is set and the path is the one of the FileInfo it has most recently
\* announced; otherwise it answers Bool(false) and its tree stays as it is.
C12_AntiSpoof == [][C12_Step]_vars

\* C12, the particular case: with p1 and then p2 announced and p1 # p2, a
\* request to delete p1 is answered Bool(false) and the tree stays as it is.
C12_EarlierAnnouncementRefused ==
    [][(/\ ReadsDeletionRequest /\ sess.kind = "any"
        /\ Cardinality(InfosIn(s2c)) >= 2
        /\ << Head(c2s).path >> # LastInfoIn(s2c)
        /\ \E i \in InfosIn(s2c) : s2c[i].fi.path = Head(c2s).path)
       => (s2c' = Append(s2c, MBool(FALSE)) /\ sfs' = sfs)]_vars

\* C13: lastSentFilePath is state of one session: on a connection on which
\* the server has announced nothing yet, a FileDeletionRequest for a path
\* (one that an earlier session can have announced: not the empty path) is
\* answered Bool(false) and the tree stays as it is.
C13_PerSession ==
    [][(ReadsDeletionRequest /\ Announced = << >> /\ Head(c2s).path # << >>)
       => (s2c' = Append(s2c, MBool(FALSE)) /\ sfs' = sfs)]_vars

ReadsOffer ==
    /\ spc = "loop" /\ c2s # << >> /\ c2s' = Tail(c2s) /\ sess' = sess
    /\ Head(c2s).type = "FileOffer"

\* The offer is refused: Bool(false), nothing created, no transfer to follow.
OfferRefused == s2c' = Append(s2c, MBool(FALSE)) /\ sfs' = sfs /\ spc' = "loop"

\* The server takes a complete File message for the offered path, of a size
\* within MaxFileSize, off the connection while a regular file is at that
\* path.
ReadsOfferedFile ==
    /\ spc = "recvFile" /\ c2s # << >> /\ c2s' = Tail(c2s) /\ sess' = sess
    /\ Head(c2s).type = "File" /\ Head(c2s).fi.path = spend.path
    /\ Head(c2s).fi.size <= MaxFileSize
    /\ Head(c2s).n = Head(c2s).fi.size /\ Head(c2s).term
    /\ Exists(sfs, InRoot(spend.path)) /\ ~sfs[InRoot(spend.path)].isDir

\* Under --Restrict no regular file of the tree changes; under --restrict
\* alone an offer for a regular file's path is accepted, and the file that
\* follows replaces the server's.
C15_Consequences ==
    /\ restrictAll =>
          \A p \in DOMAIN sfs : ~sfs[p].isDir => (p \in DOMAIN sfs' /\ sfs'[p] = sfs[p])
    /\ (/\ restrict /\ ~restrictAll /\ ReadsOffer /\ ~Head(c2s).fi.isDir
        /\ Exists(sfs, InRoot(Head(c2s).fi.path))
        /\ ~sfs[InRoot(Head(c2s).fi.path)].isDir)
       => (s2c' = Append(s2c, MBool(TRUE)) /\ spc' = "recvFile" /\ spend' = Head(c2s).fi)
    /\ (~restrictAll /\ ReadsOfferedFile)
       => /\ DOMAIN sfs' = DOMAIN sfs
          /\ sfs'[InRoot(spend.path)].data = Head(c2s).data
          /\ sfs'[InRoot(spend.path)].size = Head(c2s).n
          /\ sfs'[InRoot(spend.path)].mtime = Head(c2s).fi.modTime

CompleteFile(m, expected) ==
    /\ m.type = "File"
    /\ m.fi.path = expected.path /\ m.fi.size <= MaxFileSize
    /\ m.n = m.fi.size /\ m.term

\* The tree after is the tree before but for the target, which holds the
\* content received, with the received size and modification time.
Replaced(before, after, target, m) ==
    /\ DOMAIN after = DOMAIN before \cup { target }
    /\ \A p \in DOMAIN before : p # target => after[p] = before[p]
    /\ ~after[target].isDir /\ after[target].data = m.data
    /\ after[target].size = m.n /\ after[target].mtime = m.fi.modTime

\* recvFile in the server (handleMsgFileOffer) and in the client
\* (requestAndSaveFile) reads what is on the connection.
ServerReadsFile == spc = "recvFile" /\ c2s # << >> /\ c2s' = Tail(c2s) /\ sess' = sess
ClientReadsFile ==
    /\ cpc = "awaitRequest" /\ cpc' # cpc /\ Len(s2c) >= 2
    /\ s2c[1] = MBool(TRUE) /\ sess' = sess

C19_Step ==
    /\ ServerReadsFile =>
          IF spc' # "aborted"
          THEN /\ CompleteFile(Head(c2s), spend)
               /\ Replaced(sfs, sfs', InRoot(spend.path), Head(c2s))
          ELSE sfs' = sfs
    /\ (ServerReadsFile /\ ~CompleteFile(Head(c2s), spend)) => spc' = "aborted"
    /\ ClientReadsFile =>
          IF cpc' # "failed"
          THEN /\ CompleteFile(s2c[2], cpend.fi)
               /\ Replaced(cfs, cfs', cpend.fi.path, s2c[2])
          ELSE cfs' = cfs
    /\ (ClientReadsFile /\ ~CompleteFile(s2c[2], cpend.fi)) => cpc' = "failed"

\* C19: recvFile puts a file at the target only when it has read a File tag,
\* a FileInfo with the expected path and a size of at most MaxFileSize, that
\* many bytes of content and the terminator, and then nothing but the target
\* changes; in every other case it returns an error (the server's session
\* aborts, the client exits with status 1) and the tree is as it was.
C19_AtomicReceive == [][C19_Step]_vars

\* The server has replaced its file a by the one an arbitrary client sent.
C19_Witness ==
    /\ sess.kind = "any" /\ spc = "loop" /\ spend.path = PathA
    /\ Exists(sfs0, PathA) /\ sfs0[PathA].data = "s"
    /\ Exists(sfs, PathA) /\ sfs[PathA].data = "x"

\* The server process runs: it serves a connection or is between two.
ServerRuns == spc \in { "off", "hello", "loop", "recvFile", "ended", "aborted" }

\* C20: an error inside a session ends only that session.  The server
\* process keeps running whatever a session brings; after a session that an
\* error ended it accepts the next connection, as it does after every session
\* it serves; and a zync client that connects after such a session gets its
\* handshake accepted.
C20_ErrorIsolation ==
    /\ []ServerRuns
    /\ (spc = "aborted" /\ sess.n < MaxSessions)
          ~> (sess.prev = "aborted" /\ spc = "hello")
    /\ \A n \in 1..(MaxSessions - 1) :
          (sess.n = n /\ sess.kind # "peer") ~> (sess.n = n + 1)
    /\ (sess.prev = "aborted" /\ sess.kind = "zync" /\ cpc = "start")
          ~> (sess.prev = "aborted" /\ cpc = "run")

\* After a session that an error ended, a zync client has completed the
\* handshake and a full sync: it has exited without an error, the server has
\* read the end of the stream, and the file the client had is on the server.
C20_Witness ==
    /\ sess.prev = "aborted" /\ sess.kind = "zync"
    /\ cpc = "done" /\ spc = "ended" /\ handled # << >>
    /\ \E p \in DOMAIN cfs :
          /\ ~cfs[p].isDir /\ ~Exists(sfs0, p)
          /\ Exists(sfs, p) /\ SameEntry(sfs[p], cfs[p])

-----------------------------------------------------------------------------
(* Claims about the wire codec *)

\* recv has read an undamaged message.
RecvOfSent == codec.at = "read" /\ codec.how = "recv" /\ codec.bad = 0

\* The value written comes back with its type and the bytes that follow the
\* message are all that is left.
RoundTrip ==
    /\ ~codec.res.err
    /\ codec.res.msg.type = codec.v.type /\ codec.res.msg = codec.v
    /\ codec.res.rest = codec.more

ReadOfDamaged == codec.at = "read" /\ codec.bad # 0

ExpectOfOther ==
    /\ codec.at = "read" /\ codec.bad = 0
    /\ \/ codec.how = "expect" /\ codec.mt # TagOf(codec.v.type)
       \/ codec.how = "expectType" /\ codec.want # codec.v.type

\* C18: reading with the expectation of one type a well-formed message of
\* another type returns an error and no value of the expected type: expect
\* returns no message at all, the readers of one type their zero value.
C18_TypeSafety ==
    ExpectOfOther =>
        /\ codec.res.err
        /\ codec.res.msg = IF codec.how = "expect" THEN Nil ELSE Zero(codec.want)

\* expect for a Bool has returned an error for a Version message.
C18_Witness ==
    /\ ExpectOfOther /\ codec.how = "expect" /\ codec.mt = MsgBool
    /\ codec.v = VVersion(ProtoVersion) /\ codec.res.err

-----------------------------------------------------------------------------
(* Claims about the end of a session and the order of its messages *)

\* The steps of the client's main goroutine.
ClientSteps ==
    \/ ClientStart \/ ClientHello \/ ClientTakeMine \/ ClientRequestNext
    \/ ClientRecvNext \/ ClientLoop \/ ClientRecvOffer \/ ClientRecvRequest
    \/ ClientRecvDeletion \/ ClientDone

\* The server has left handleConnection, and the client waits for an answer
\* of which nothing is on its way.
ClientWaitsOn ==
    /\ spc \in { "ended", "aborted" }
    /\ cpc \in { "hello", "awaitNext", "awaitOffer", "awaitRequest", "awaitDeletion" }
    /\ s2c = << >>

\* C21: when a session has ended on the server, by abort or normally, a
\* client that waits for an answer is not left waiting: the end of the stream
\* reaches it, so that it can take its next step (and exit).
C21_ConnectionClosed == ClientWaitsOn => ENABLED ClientSteps

\* The server takes a FileOffer, a FileRequest or a FileDeletionRequest off
\* the connection and answers Bool(false).
ServerAnswersFalse ==
    /\ spc = "loop" /\ c2s # << >> /\ c2s' = Tail(c2s) /\ sess' = sess
    /\ Head(c2s).type \in { "FileOffer", "FileRequest", "FileDeletionRequest" }
    /\ Len(s2c') > Len(s2c) /\ s2c'[Len(s2c) + 1] = MBool(FALSE)

\* The client reads Bool(false) as the answer to its offer, request or
\* deletion request.
ClientReadsFalse ==
    /\ cpc \in { "awaitOffer", "awaitRequest", "awaitDeletion" } /\ cpc' # cpc
    /\ sess' = sess /\ s2c # << >> /\ Head(s2c) = MBool(FALSE)

IsRequest(m) ==
    m.type \in { "Version", "Command", "FileOffer", "FileRequest", "FileDeletionRequest" }
RequestsIn(q) == { k \in 1..Len(q) : IsRequest(q[k]) }

\* The client is at one of its reads of an answer.
ClientAwaits ==
    cpc \in { "hello", "awaitNext", "awaitOffer", "awaitRequest", "awaitDeletion" }

\* No more than one request is unanswered, and while one is, or an answer is
\* unread, the client is at the read of the answer.
C23_OneAtATime ==
    /\ Cardinality(RequestsIn(c2s)) <= 1
    /\ RequestsIn(c2s) # {} => (s2c = << >> /\ ClientAwaits)
    /\ s2c # << >> => ClientAwaits

\* The server writes only in the step in which it takes a request off the
\* stream; the client writes a request only when no request is unanswered
\* and nothing of an answer is unread.
C23_Step ==
    /\ Len(s2c') > Len(s2c) =>
          (c2s # << >> /\ IsRequest(Head(c2s)) /\ c2s' = Tail(c2s))
    /\ (Len(c2s') > Len(c2s) /\ IsRequest(c2s'[Len(c2s')])) =>
          (RequestsIn(c2s) = {} /\ s2c = << >> /\ s2c' = << >> /\ ~ClientAwaits)

\* C23: requests and answers are serialized.  At most one request of the
\* client is unanswered, the server writes only in answer to a message it
\* has received, and the client sends its next request only after it has
\* read the whole answer to the one before.
C23_Serialization == []C23_OneAtATime /\ [][C23_Step]_vars

\* The client has sent a File for an accepted offer and, without waiting, its
\* next request; the server has read neither.
C23_Witness ==
    /\ Len(c2s) = 2 /\ c2s[1].type = "File" /\ IsRequest(c2s[2])
    /\ spc = "recvFile" /\ ClientAwaits

-----------------------------------------------------------------------------
(* Claims about what a run and the server's handlers do to the trees *)

\* The tree holds at p what the tree before held there.
\* The server takes the offer of a directory off the connection, and
\* --Restrict does not make it refuse.
ReadsDirOffer ==
    /\ ReadsOffer /\ Head(c2s).fi.isDir
    /\ ~(restrictAll /\ ~IsNotExist(sfs, InRoot(Head(c2s).fi.path)))

\* The offered directory is created with the offered mode, nothing else of
\* the tree changes, the one answer is Bool(false), and the server is back at
\* its command loop, expecting no File message.
DirCreated ==
    LET p == InRoot(Head(c2s).fi.path)
    IN  /\ DOMAIN sfs' = DOMAIN sfs \cup { p }
        /\ \A q \in DOMAIN sfs \ { p } : sfs'[q] = sfs[q]
        /\ sfs'[p].isDir /\ sfs'[p].mode = Head(c2s).fi.mode
        /\ s2c' = Append(s2c, MBool(FALSE))
        /\ spc' = "loop" /\ spend' = spend

\* C26 as stated: on a FileOffer for a directory that --Restrict does not
\* refuse, the server creates the directory with the offered mode, answers
\* Bool(false), expects no File message and goes on with the next command.
C26_DirectoryOffer == [][ReadsDirOffer => DirCreated]_vars

\* C26, amended: as C26 when the directory can be created (nothing is at the
\* path and its parent is a directory); otherwise mkdir fails, the server
\* answers nothing, changes nothing and the session is aborted.
C26_DirectoryOfferMkdir ==
    [][ReadsDirOffer =>
          LET p == InRoot(Head(c2s).fi.path)
          IN  IF ~Exists(sfs, p) /\ IsDirAt(sfs, Parent(p))
              THEN DirCreated /\ ~Exists(sfs, p)
              ELSE spc' = "aborted" /\ s2c' = s2c /\ sfs' = sfs]_vars

\* The zync client waits with the answer Bool(false) to its offer of a
\* directory, which the server did not have and has now.
C26_Witness ==
    /\ sess.kind = "zync" /\ cpc = "awaitOffer" /\ cpend.fi.isDir
    /\ s2c = << MBool(FALSE) >> /\ spc = "loop"
    /\ ~Exists(sfs0, cpend.fi.path) /\ IsDirAt(sfs, cpend.fi.path)
    /\ sfs[cpend.fi.path].mode = cpend.fi.mode

\* The server takes a FileRequest off the connection.
ReadsRequest ==
    /\ spc = "loop" /\ c2s # << >> /\ c2s' = Tail(c2s) /\ sess' = sess
    /\ Head(c2s).type = "FileRequest"

\* The message m is a complete File message for the path p of the tree fs.
CompleteFileOf(fs, p, m) ==
    /\ m.type = "File" /\ m.fi.path = p /\ ~m.fi.isDir
    /\ m.n = m.fi.size /\ m.term
    /\ Exists(fs, p) /\ m.data = fs[p].data /\ m.fi.size = fs[p].size

\* C27: on a FileRequest the server answers Bool(false) and nothing else if
\* root/path does not exist; otherwise it answers Bool(true) followed by
\* exactly one complete File message for that path, and is back at its
\* command loop.
C27_FileRequest ==
    [][ReadsRequest =>
          LET p == InRoot(Head(c2s).path)
          IN  /\ spc' = "loop" /\ sfs' = sfs
              /\ IF ~Exists(sfs, p)
                 THEN s2c' = Append(s2c, MBool(FALSE))
                 ELSE /\ Len(s2c') = Len(s2c) + 2
                      /\ SubSeq(s2c', 1, Len(s2c)) = s2c
                      /\ s2c'[Len(s2c) + 1] = MBool(TRUE)
                      /\ CompleteFileOf(sfs, p, s2c'[Len(s2c) + 2])]_vars

Untouched(before, after, p) == p \in DOMAIN after /\ after[p] = before[p]

\* C24: in the default mode (no --keep, no --delete) a run of the client
\* changes no file that was on the server before the run, and a file that
\* was on both sides is left as it was on both.
C24_NonDestructiveDefault ==
    DefaultClient =>
        /\ \A p \in DOMAIN sfs0 : ~sfs0[p].isDir => Untouched(sfs0, sfs, p)
        /\ \A p \in DOMAIN cfs0 \cap DOMAIN sfs0 :
              (~cfs0[p].isDir /\ ~sfs0[p].isDir) => Untouched(cfs0, cfs, p)

-----------------------------------------------------------------------------
(* Claims about the numbers on the wire *)

\* The message-type tags as the protocol's table gives them.
TableTag(type) ==
    CASE type = "bool" -> 0
      [] type = "Command" -> 1
      [] type = "File" -> 2
      [] type = "FileInfo" -> 3
      [] type = "FileOffer" -> 4
      [] type = "FileRequest" -> 5
      [] type = "FileDeletionRequest" -> 6
      [] type = "int32" -> 7
      [] type = "int64" -> 8
      [] type = "string" -> 9
      [] type = "Time" -> 10
      [] type = "uint32" -> 11
      [] type = "Version" -> 12

\* C25: every message is written with the tag the table gives its type and
\* ends with the 32-bit value 20741, and recv reads a FileDeletionRequest
\* that was written with tag 6 as a FileDeletionRequest for the same path.
C25_WireTags ==
    /\ (codec.at = "written" /\ codec.bad = 0) =>
          LET bytes == Written(codec.v)
          IN  /\ readInt32(SubSeq(bytes, 1, 4)) = TableTag(codec.v.type)
              /\ readInt32(SubSeq(bytes, Len(bytes) - 3, Len(bytes))) = 20741
    /\ \A path \in { PathA, PathAA } :
          LET r == recv(sendFileDeletionRequest(path))
          IN  ~r.err /\ r.msg.type = "FileDeletionRequest" /\ r.msg.s = path

-----------------------------------------------------------------------------
(* sendFile, step by step, on a file that other processes may write to *)

\* The longest content of the file.
MaxContent == 3

\* The contents a file may have: its bytes, told apart by their position.
SendContents == { [i \in 1..k |-> 119 + i] : k \in 0..MaxContent }

\* The FileInfo that the caller of sendFile made from a stat of the file.
StatOf(fi, content) == [fi EXCEPT !.size = IF fi.isDir THEN 0 ELSE Len(content)]

\* The caller has the FileInfo of a file or a directory, and calls sendFile.
SendFileInit ==
    /\ \E fi \in CodecInfos, content \in SendContents :
          codec = [at |-> "start", fi |-> StatOf(fi, content), file |-> content,
                   gone |-> FALSE, conn |-> << >>, n |-> 0]
    /\ sess = OneSession
    /\ cfs = EmptyFs /\ cfs0 = EmptyFs /\ cw = WalkerNone /\ out = << >>
    /\ IdleClient /\ IdleServer /\ IdleWire /\ IdleMerge

SendFileStep(at, conn, n) ==
    /\ codec' = [codec EXCEPT !.at = at, !.conn = conn, !.n = n]
    /\ UNCHANGED << cfs, sfs, beforeVars, optionVars, clientVars, cw, serverVars,
                    wireVars, out, mergeVars, sess >>

\* err = writeMessageType(conn, MsgFile)
SendFileTag ==
    /\ codec.at = "start"
    /\ SendFileStep("tag", writeMessageType(MsgFile), 0)

\* file, err := os.Open(path)
SendFileOpen ==
    /\ codec.at = "tag"
    /\ SendFileStep(IF codec.gone THEN "failed" ELSE "open", codec.conn, 0)

\* err = send(conn, fi)
SendFileInfo ==
    /\ codec.at = "open"
    /\ SendFileStep("info", codec.conn \o send(VFileInfo(codec.fi)), 0)

\* n, err := io.Copy(conn, file), and the comparison of n with fi.Size:
\* io.Copy writes what it reads until the end of the file, and reading a
\* directory is an error.
SendFileCopy ==
    /\ codec.at = "info"
    /\ IF codec.fi.isDir THEN SendFileStep("failed", codec.conn, 0)
       ELSE SendFileStep(IF Len(codec.file) # codec.fi.size THEN "failed" ELSE "copied",
                         codec.conn \o codec.file, Len(codec.file))

\* err = writeMessageTerminator(conn)
SendFileTerminator ==
    /\ codec.at = "copied"
    /\ SendFileStep("done", codec.conn \o writeMessageTerminator, codec.n)

\* Another process rewrites the file before sendFile has read it.
FileWritten ==
    /\ codec.at \in { "start", "tag", "open", "info" } /\ ~codec.fi.isDir /\ ~codec.gone
    /\ \E content \in SendContents \ { codec.file } :
          codec' = [codec EXCEPT !.file = content]
    /\ UNCHANGED << cfs, sfs, beforeVars, optionVars, clientVars, cw, serverVars,
                    wireVars, out, mergeVars, sess >>

\* Another process removes the file before sendFile has opened it.
FileRemoved ==
    /\ codec.at \in { "start", "tag" } /\ ~codec.gone
    /\ codec' = [codec EXCEPT !.gone = TRUE]
    /\ UNCHANGED << cfs, sfs, beforeVars, optionVars, clientVars, cw, serverVars,
                    wireVars, out, mergeVars, sess >>

SendFileNext ==
    \/ SendFileTag \/ SendFileOpen \/ SendFileInfo \/ SendFileCopy \/ SendFileTerminator
    \/ FileWritten \/ FileRemoved

SpecSendFile == SendFileInit /\ [][SendFileNext]_vars

\* What sendFile writes before the content, and the content it has written.
SendFileHead == writeMessageType(MsgFile) \o send(VFileInfo(codec.fi))
SendFileBody ==
    IF codec.at \in { "start", "tag", "open", "info" } \/ Len(codec.conn) <= Len(SendFileHead)
    THEN << >>
    ELSE SubSeq(codec.conn, Len(SendFileHead) + 1,
                Len(codec.conn) - (IF codec.at = "done" THEN 4 ELSE 0))

\* A sendFile that returns nil has written the File tag, the FileInfo as one
\* message, fi.Size bytes of content and the terminator, and nothing else.
SendFileFramed ==
    codec.at = "done" =>
        /\ codec.conn = SendFileHead \o SendFileBody \o writeMessageTerminator
        /\ Len(SendFileBody) = codec.fi.size
        /\ LET r == recv(Drop(SendFileHead, 4))
           IN  ~r.err /\ r.msg = VFileInfo(codec.fi) /\ r.rest = << >>

\* A sendFile that found fewer than fi.Size bytes to send has failed.
SendFileShortFails ==
    (codec.at \in { "copied", "done", "failed" } /\ Len(SendFileBody) < codec.fi.size)
        => codec.at = "failed"

\* C28: sendFile writes the File tag, one framed FileInfo, exactly fi.Size
\* bytes of content and the terminator; it never writes more than fi.Size
\* bytes of content, also when the file grew after the stat; and it fails
\* when there were fewer than fi.Size bytes to send.
C28_SendFileFraming ==
    /\ SendFileFramed
    /\ Len(SendFileBody) <= codec.fi.size
    /\ SendFileShortFails

-----------------------------------------------------------------------------
(* Claims about the sync loop over the two real enumerations *)

\* The paths the two enumerations have handed to the loop so far: the local
\* head of every iteration that takes from the local side, the remote head
\* of every iteration that takes from the remote side.
LocalPaths ==
    { handled[i].mine.path : i \in { i \in 1..Len(handled) : handled[i].cat # "MISSING" } }
RemotePaths ==
    { handled[i].theirs.path : i \in { i \in 1..Len(handled) : handled[i].cat # "NEW" } }

\* A step that begins an iteration of the loop.
Iterates == Len(handled') = Len(handled) + 1

\* C29: every iteration of the sync loop takes a new head on at least one
\* side before the next iteration begins; when the loop has ended without an
\* error it has run once for every path of the two enumerations together,
\* and the client has closed the connection and is done.
C29_MergeWalkTermination ==
    /\ [](cpc = "done" =>
            /\ Len(handled) = Cardinality(LocalPaths \cup RemotePaths)
            /\ cclosed /\ ~myAny /\ ~svrAny)
    /\ [][Iterates => (ctodo = << >> /\ ctodo' # << >>)]_vars

\* C30: in a run of the client against the server, each over its own
\* enumerator, a path that both trees hold, and held before the run, is
\* handled by the comparison of the two entries, never as MISSING or NEW.
C30_BothSidesNeverOneSided ==
    [][Iterates =>
          LET h == handled'[Len(handled')]
          IN  (/\ h.path \in DOMAIN cfs0 \cap DOMAIN sfs0
               /\ Exists(cfs, h.path) /\ Exists(sfs, h.path))
              => h.cat = "SAME"]_vars

-----------------------------------------------------------------------------
(* Claims about deletions on the server *)

\* C31: no FileDeletionRequest, whatever its path and whenever it is sent,
\* makes the server remove its root directory.
C31_RootNeverDeleted == [][ReadsDeletionRequest => Exists(sfs', Dot)]_vars

-----------------------------------------------------------------------------
(* Claims about the server's enumerator *)

\* handleConnection has returned: nothing receives from the channel of the
\* session's enumerator any more.
ConsumerGone == spc \in { "ended", "aborted" }

\* C32: the producer of an enumeration terminates in every session, also
\* when its consumer stops receiving before the enumeration is exhausted:
\* once the consumer has gone, the producer is not blocked in the hand-off
\* of an entry (which nobody will receive), so that it runs on to the end of
\* its walk, where it closes the channel.
C32_EnumeratorShutdown == ConsumerGone => ~sw.has

\* The directories the server has deleted in this session.
DeletedDirs == { d \in DOMAIN sfs0 : sfs0[d].isDir /\ ~Exists(sfs, d) }

\* The server answers a RequestNextFileInfo with a FileInfo.
Announces ==
    /\ spc = "loop" /\ c2s # << >> /\ c2s' = Tail(c2s) /\ sess' = sess
    /\ Head(c2s).type = "Command"
    /\ Len(s2c') = Len(s2c) + 2 /\ s2c'[Len(s2c')].type = "FileInfo"

\* C33: after the server has deleted a directory in answer to a
\* FileDeletionRequest, it announces no path beneath that directory later in
\* the session.
C33_NoAnnouncementBeneathDeleted ==
    [][Announces =>
          \A d \in DeletedDirs : ~IsUnder(s2c'[Len(s2c')].fi.path, d)]_vars

-----------------------------------------------------------------------------
(* Claims about receiving a file *)

\* C34: whenever either side receives the File message for a path, the
\* parent of the path is a directory on the receiving side, so that the
\* rename at the end of recvFile cannot fail for want of it.
C34_ParentExistsOnReceive ==
    [][/\ (ServerReadsFile /\ Head(c2s).type = "File")
            => IsDirAt(sfs, Parent(InRoot(spend.path)))
       /\ (ClientReadsFile /\ s2c[2].type = "File")
            => IsDirAt(cfs, Parent(cpend.fi.path))]_vars

-----------------------------------------------------------------------------
(* Claims about the client's deletion requests *)

\* Every FileDeletionRequest on its way to the server names the path the
\* server announced last.
DeletionsNameTheAnnounced ==
    \A i \in 1..Len(c2s) :
        c2s[i].type = "FileDeletionRequest" => c2s[i].path = lastSentFilePath

\* C35: in a run of the client, with or without --interactive, every
\* FileDeletionRequest it sends names the path of the FileInfo the server
\* announced most recently, and a server without --restrict and --Restrict
\* answers it with Bool(true).
C35_DeletionsAuthorised ==
    /\ []DeletionsNameTheAnnounced
    /\ [][(ReadsDeletionRequest /\ Unrestricted) => s2c' = Append(s2c, MBool(TRUE))]_vars

\* The user has chosen "delete" for a missing path and the server has
\* answered the request with Bool(true).
C35_Witness ==
    /\ interactive /\ Unrestricted /\ cpc = "awaitDeletion"
    /\ handled # << >> /\ handled[Len(handled)].asked
    /\ handled[Len(handled)].line = OptDelete
    /\ s2c = << MBool(TRUE) >>

-----------------------------------------------------------------------------
(* Claims about the end of the server's enumeration *)

\* The client has been told that the server has no further entry: it holds
\* no remote head and has no request for one to make or to wait for.
RemoteEnded ==
    /\ cpc \notin { "off", "start", "hello", "awaitNext" }
    /\ ~svrAny /\ svrNext = NoFile
    /\ \A i \in 1..Len(ctodo) : ctodo[i] # "next"

\* The client reads Bool(false) in answer to RequestNextFileInfo.
ClientReadsEnd ==
    /\ cpc = "awaitNext" /\ s2c # << >> /\ Head(s2c) = MBool(FALSE)
    /\ s2c' = Tail(s2c)

\* A RequestNextFileInfo is put on the connection to the server.
NextRequested ==
    /\ Len(c2s') = Len(c2s) + 1
    /\ c2s'[Len(c2s')] = MCommand(CmdRequestNextFileInfo)

\* The server takes a RequestNextFileInfo off the connection.
ReadsNextRequest ==
    /\ spc = "loop" /\ c2s # << >> /\ c2s' = Tail(c2s)
    /\ Head(c2s) = MCommand(CmdRequestNextFileInfo)

\* The channel of the enumeration is closed and empty.
Exhausted(w) == w.started /\ w.closed /\ ~w.has

\* C36: once the client has read Bool(false) in answer to
\* RequestNextFileInfo it sends no RequestNextFileInfo again in that run, and
\* every path it handles from then on is its own head, as a NEW path; a
\* server whose enumeration is exhausted answers every RequestNextFileInfo
\* with Bool(false).
C36_RemoteEndIsFinal ==
    /\ [][ClientReadsEnd => RemoteEnded']_vars
    /\ [][(RemoteEnded /\ sess' = sess) =>
             /\ RemoteEnded' /\ ~NextRequested
             /\ Iterates => /\ handled'[Len(handled')].cat = "NEW"
                            /\ handled'[Len(handled')].path = myNext.path]_vars
    /\ [][(ReadsNextRequest /\ Exhausted(sw)) =>
             s2c' = Append(s2c, MBool(FALSE)) /\ Exhausted(sw')]_vars

\* The client has handled a path of its own after the end of the server's
\* enumeration, which the server has reached too.
C36_Witness ==
    /\ sess.kind = "zync" /\ RemoteEnded /\ Exhausted(sw) /\ spc = "loop"
    /\ handled # << >> /\ handled[Len(handled)].cat = "NEW"
    /\ ~handled[Len(handled)].theirs.isDir /\ handled[Len(handled)].theirs = NoFile
    /\ Len(handled) >= 2 /\ handled[Len(handled) - 1].cat # "NEW"

-----------------------------------------------------------------------------
(* Claims about fetching a missing path *)

\* The path handled last is a MISSING one that the client fetches.
FetchesMissing(hs) ==
    /\ hs # << >> /\ hs[Len(hs)].cat = "MISSING"
    /\ hs[Len(hs)].op \in { "mkdir", "requestFile" }

\* C37: requestAndSaveFile for a MISSING path runs with overwrite disabled
\* and replaces no local file: where the target exists in the client's tree,
\* recvFile fails, the tree stays as it is and the client aborts.
C37_NoOverwriteOnMissing ==
    [][/\ (Iterates /\ FetchesMissing(handled')) => ~handled'[Len(handled')].overwrite
       /\ (ClientReadsFile /\ FetchesMissing(handled) /\ Exists(cfs, cpend.fi.path)) =>
              cfs' = cfs /\ cpc' = "failed"]_vars

-----------------------------------------------------------------------------
(* Claims about the interactive mode *)

\* The operation that belongs to an option of the prompt for a path of the
\* given category.
OptionOp(cat, opt, theirs) ==
    IF opt = OptGive THEN "offer"
    ELSE IF opt = OptAccept THEN (IF theirs.isDir THEN "mkdir" ELSE "requestFile")
    ELSE IF opt = OptDelete THEN
        (IF cat = "MISSING" THEN "requestFileDeletion" ELSE "deleteLocalFile")
    ELSE "none"

\* The path handled in this step was put to the user, who typed a line.
Prompted ==
    /\ Iterates /\ handled'[Len(handled')].asked
    /\ handled'[Len(handled')].act # "eof"

\* C38: with --interactive, what is done for a MISSING, NEW or CONFLICT path
\* is the option the user has entered, by its full name or by its first
\* letter; no other line, the empty line included, leads to a transfer, a
\* deletion or an abort; --keep and --delete start nothing by themselves.
C38_InteractiveAction ==
    [][Prompted =>
         LET h == handled'[Len(handled')]
         IN  \E i \in 1..3 :
                 LET opt == PromptOptions(h.cat)[i]
                 IN  /\ h.line = opt \/ h.line = << opt[1] >>
                     /\ h.op = OptionOp(h.cat, opt, h.theirs)
                     /\ cpc' = "failed" => h.op = "mkdir"]_vars

-----------------------------------------------------------------------------
(* Claims about the lengths of strings and times *)

\* The length declared lies outside what the type allows.
OutOfBounds(mt, declared) ==
    \/ declared < 0
    \/ mt = MsgString /\ declared > MaxStringLength
    \/ mt = MsgTime /\ declared > MaxTimeLength

\* The message has been read as its own type.
ReadAsItself ==
    /\ codec.at = "read"
    /\ \/ codec.how = "recv"
       \/ codec.how = "expect" /\ codec.mt = codec.tag
       \/ codec.how = "expectType"

\* C39: reading a String or Time message whose declared length is negative
\* or above MaxStringLength (String) or MaxTimeLength (Time) returns an
\* error, without a panic, and leaves what follows the length unread.
C39_LengthBounds ==
    (ReadAsItself /\ OutOfBounds(codec.tag, codec.declared)) =>
        /\ codec.res.err /\ ~codec.res.panic
        /\ codec.res.rest = Drop(codec.conn, 8)

-----------------------------------------------------------------------------
(* Claims about the end of the stream *)

\* C40: the server takes the end of the stream for a clean disconnect only
\* where the stream ends before the first byte of a message; a stream that
\* ends inside a message, after its type has been read, is an error that
\* aborts the session.
C40_CleanEndAtBoundary ==
    /\ codec.at = "returned" => codec.cut = 0
    /\ (codec.at \notin { "written", "idle" } /\ codec.cut >= 4
           /\ codec.cut < Len(Written(codec.v))) => codec.at = "panicked"

====
